---- MODULE Spec2Model ----
(***************************************************************************)
(* Token lifecycle (auth.service / jwt utils / RefreshToken model) and     *)
(* organization-scoped authorization (rbac.middleware / org.service /      *)
(* org.controller / org.routes) of the multi-tenant starter template.      *)
(*                                                                         *)
(* Time is counted in weeks.  A user document is addressed by one          *)
(* identifier: IUser declares both `_id` and `id` as the string identity   *)
(* of the user and the services use them interchangeably.                  *)
(***************************************************************************)
EXTENDS Integers, Sequences, FiniteSets, TLC

VARIABLES
  config,         \* process configuration: [refreshExpiry], read once at startup
  now,            \* the clock (new Date()), in weeks
  users,          \* User collection: user id -> [status]
  refreshTokens,  \* RefreshToken collection: set of rows
  tokenSeq,       \* number of refresh tokens generated so far (fresh tokenId / row id)
  issued,         \* raw refresh tokens returned to clients
  rotations,      \* <<presented raw token, new raw token>> of every successful refresh
  authOut,        \* what the call completed by the last step returned (Quiet if none)
  refreshReqs,    \* refreshAccessToken calls in flight
  orgs,           \* Organization collection: set of rows
  memberships,    \* Membership collection: set of rows
  invitations,    \* Invitation collection: set of rows
  reqs,           \* org-route requests in flight (between two awaits of their pipeline)
  resp,           \* the response sent by the last step (Quiet if it sent none)
  tests           \* Test collection: set of rows

vars == <<config, now, users, refreshTokens, tokenSeq, issued, rotations, authOut,
          refreshReqs, orgs, memberships, invitations, reqs, resp, tests>>

authStore == <<config, users, refreshTokens, tokenSeq, issued, rotations, refreshReqs>>
authVars == <<authStore, authOut>>
orgVars  == <<orgs, memberships, invitations, reqs, resp, tests>>

(***************************************************************************)
(* Bounds                                                                  *)
(***************************************************************************)
MaxTime == 2          \* the clock stops after this many weeks
MaxTokens == 3        \* refresh tokens generated in one behaviour
MaxRefreshReqs == 2   \* refreshAccessToken calls in flight at once
MaxOrgs == 1          \* organizations created in one behaviour
MaxInvitations == 2   \* invitations created in one behaviour
MaxInflight == 2      \* org-route requests in flight at once

Users == {"u1", "u2", "u3"}
NoUser == "nobody"                    \* an email no user registered
LoginEmails == {"u1", "u2", NoUser}   \* the emails presented to loginUser
UserStatuses == {"active", "inactive", "suspended"}
\* the accounts of the token-lifecycle runs: u2's account has been deactivated
RegisteredUsers == [u \in Users |-> [status |-> IF u = "u2" THEN "inactive" ELSE "active"]]
None == [kind |-> "none"]
Quiet == [op |-> "none"]

(***************************************************************************)
(* jwt utils and config                                                    *)
(***************************************************************************)
\* config.jwt.refreshExpiry: process.env.JWT_REFRESH_EXPIRY || '7d'
RefreshExpiryDefault == "7d"
RefreshExpirySettings == {RefreshExpiryDefault, "1y"}

\* the time span jsonwebtoken reads from an expiresIn string, in weeks
ExpiresInWeeks(expiresIn) == CASE expiresIn = "7d" -> 1
                               [] expiresIn = "1y" -> 52

\* parseInt(string): the leading digits
ParseInt(str) == CASE str = "7d" -> 7
                   [] str = "1y" -> 1

RefreshSecret == "refresh-secret"
AccessSecret == "access-secret"

\* jwt.sign(payload, config.jwt.refreshSecret, { expiresIn: config.jwt.refreshExpiry })
generateRefreshToken(userId, tokenId, t) ==
  [kind |-> "jwt", sig |-> RefreshSecret, userId |-> userId,
   tokenId |-> tokenId, exp |-> t + ExpiresInWeeks(config.refreshExpiry)]

\* jwt.verify(token, config.jwt.refreshSecret): signature, then expiry
verifyRefreshToken(token, t) ==
  /\ token.sig = RefreshSecret
  /\ t < token.exp

\* crypto.createHash('sha256').update(refreshToken).digest('hex')
Sha256(raw) == [kind |-> "sha256", of |-> raw]

\* the same payload signed with another key (a forged or foreign token)
Forge(raw) == [raw EXCEPT !.sig = AccessSecret]

PresentableTokens == issued \cup {Forge(t) : t \in issued}

(***************************************************************************)
(* RefreshToken store                                                      *)
(***************************************************************************)
\* RefreshToken.findOne({ token, userId })
FindOneToken(rows, token, userId) ==
  LET m == {row \in rows : row.token = token /\ row.userId = userId}
  IN  IF m = {} THEN None ELSE CHOOSE row \in m : TRUE

DeleteOneByIdNoop(rows, id) == rows

\* RefreshToken.deleteOne({ id })
DeleteOneById(rows, id) ==
  {row \in rows : row.id # id}

DeleteAllOfTokenOwner(rows, token) ==
  {row \in rows : \A m \in rows : m.token = token => row.userId # m.userId}

\* RefreshToken.deleteOne({ token })
DeleteOneByToken(rows, token) ==
  LET m == {row \in rows : row.token = token}
  IN  IF m = {} THEN rows ELSE rows \ {CHOOSE row \in m : TRUE}

\* RefreshToken.deleteMany({ userId })
DeleteManyByUser(rows, userId) ==
  {row \in rows : row.userId # userId}

(***************************************************************************)
(* auth.service                                                            *)
(***************************************************************************)
\* config.jwt.accessExpiry '15m': an access token is accepted until the clock's
\* next reading
AccessLifetime == 1

generateAccessTokenWithRefreshSecret(userId, t) ==
  [kind |-> "jwt", sig |-> RefreshSecret, userId |-> userId, exp |-> t + AccessLifetime]

\* jwt.sign(payload, config.jwt.accessSecret, { expiresIn: config.jwt.accessExpiry })
generateAccessToken(userId, t) ==
  [kind |-> "jwt", sig |-> AccessSecret, userId |-> userId, exp |-> t + AccessLifetime]

\* a string that is no JWT (authHeader.split(' ')[1] of 'Bearer ' is '')
Malformed == [kind |-> "malformed"]

verifyAccessTokenSignatureOnly(token, t) ==
  /\ token.kind = "jwt"
  /\ token.sig = AccessSecret

\* jwt.verify(token, config.jwt.accessSecret): a JWT, its signature, its expiry
verifyAccessToken(token, t) ==
  /\ token.kind = "jwt"
  /\ token.sig = AccessSecret
  /\ t < token.exp

StoredTokenValueRaw(refreshToken) == refreshToken

\* hashedToken: the value createAuthTokens / refreshAccessToken / logoutUser
\* put in, or look up by, the row's token field
StoredTokenValue(refreshToken) == Sha256(refreshToken)

\* expiresAt.setDate(expiresAt.getDate() + parseInt(config.jwt.refreshExpiry) * 7),
\* in weeks
StoredExpiry(t) == t + (ParseInt(config.refreshExpiry) * 7) \div 7

\* the refresh token createAuthTokens generates for a user
NewRefreshToken(userId) == generateRefreshToken(userId, tokenSeq + 1, now)

\* the row createAuthTokens inserts
NewTokenRow(userId) ==
  [id |-> tokenSeq + 1,
   token |-> StoredTokenValue(NewRefreshToken(userId)),
   userId |-> userId,
   expiresAt |-> StoredExpiry(now)]

\* createAuthTokens: RefreshToken.create (token is unique) and the pair returned
CreateAuthTokens(userId) ==
  /\ tokenSeq < MaxTokens
  /\ \A row \in refreshTokens : row.token # NewTokenRow(userId).token
  /\ refreshTokens' = refreshTokens \cup {NewTokenRow(userId)}
  /\ tokenSeq' = tokenSeq + 1
  /\ issued' = issued \cup {NewRefreshToken(userId)}

IdleRefresh ==
  [pc |-> "idle", token |-> None, stored |-> None, late |-> FALSE, revoked |-> FALSE]

\* what a call returned: the error thrown, or "ok" and the new refresh token
Returned(op, subject, token, late, outcome, newToken) ==
  [op |-> op, subject |-> subject, token |-> token, late |-> late,
   outcome |-> outcome, newToken |-> newToken]

\* what a refreshAccessToken call returned, with a note of whether the call
\* came straight after logoutUser of the same token
RefreshReturned(token, late, revoked, outcome, newToken) ==
  ("revoked" :> revoked) @@
     Returned("refresh", token.userId, token, late, outcome, newToken)

\* a successful call returns the pair createAuthTokens made: the access token
\* signed for the user beside the refresh token
WithAccessToken(out) ==
  ("accessToken" :> generateAccessToken(out.subject, now)) @@ out

\* a refreshAccessToken call returns or throws
RefreshDone(r, outcome, newToken) ==
  /\ refreshReqs' = [refreshReqs EXCEPT ![r] = IdleRefresh]
  /\ authOut' = LET out == RefreshReturned(refreshReqs[r].token, refreshReqs[r].late,
                                            refreshReqs[r].revoked, outcome, newToken)
                 IN  IF outcome = "ok" THEN WithAccessToken(out) ELSE out

\* loginUser(email, password)
LoginUser(email, passwordOk) ==
  /\ UNCHANGED <<config, now, users, rotations, refreshReqs>>
  /\ UNCHANGED orgVars
  /\ IF email \notin Users
       THEN /\ authOut' = Returned("login", email, None, FALSE,
                                   "Invalid email or password", None)
            /\ UNCHANGED <<refreshTokens, tokenSeq, issued>>
     ELSE IF users[email].status # "active"
       THEN /\ authOut' = Returned("login", email, None, FALSE,
                                   "Account is not active", None)
            /\ UNCHANGED <<refreshTokens, tokenSeq, issued>>
     ELSE IF ~passwordOk
       THEN /\ authOut' = Returned("login", email, None, FALSE,
                                   "Invalid email or password", None)
            /\ UNCHANGED <<refreshTokens, tokenSeq, issued>>
     ELSE /\ CreateAuthTokens(email)
          /\ authOut' = WithAccessToken(Returned("login", email, None, FALSE, "ok",
                                                 NewRefreshToken(email)))

\* refreshAccessToken, up to the first store call and the checks on its result:
\* verifyRefreshToken, the hash, RefreshToken.findOne, the expiry check
RefreshFind(r, token) ==
  /\ refreshReqs[r].pc = "idle"
  /\ \A q \in 1..(r - 1) : refreshReqs[q].pc # "idle"
  /\ UNCHANGED <<config, now, users, refreshTokens, tokenSeq, issued, rotations>>
  /\ UNCHANGED orgVars
  /\ LET late == token \in {p[1] : p \in rotations}
         stored == FindOneToken(refreshTokens, StoredTokenValue(token), token.userId)
         revoked == authOut # Quiet /\ authOut.op = "logout" /\ authOut.token = token
         start == [IdleRefresh EXCEPT !.token = token, !.late = late,
                                      !.revoked = revoked]
     IN  IF ~verifyRefreshToken(token, now)
           THEN /\ authOut' = RefreshReturned(token, late, revoked,
                                              "Invalid refresh token", None)
                /\ UNCHANGED refreshReqs
         ELSE IF stored = None
           THEN /\ authOut' = RefreshReturned(token, late, revoked,
                                              "Refresh token not found", None)
                /\ UNCHANGED refreshReqs
         ELSE IF stored.expiresAt < now
           THEN /\ refreshReqs' = [refreshReqs EXCEPT ![r] =
                     [start EXCEPT !.pc = "deleteExpired", !.stored = stored]]
                /\ authOut' = Quiet
         ELSE /\ refreshReqs' = [refreshReqs EXCEPT ![r] =
                     [start EXCEPT !.pc = "getUser", !.stored = stored]]
              /\ authOut' = Quiet

\* await RefreshToken.deleteOne({ id: storedToken.id }); throw 'Refresh token has expired'
RefreshDeleteExpired(r) ==
  /\ refreshReqs[r].pc = "deleteExpired"
  /\ refreshTokens' = DeleteOneById(refreshTokens, refreshReqs[r].stored.id)
  /\ RefreshDone(r, "Refresh token has expired", None)
  /\ UNCHANGED <<config, now, users, tokenSeq, issued, rotations>>
  /\ UNCHANGED orgVars

RefreshGetUserAnyStatus(r) ==
  /\ refreshReqs[r].pc = "getUser"
  /\ refreshReqs' = [refreshReqs EXCEPT ![r].pc = "deleteOld"]
  /\ authOut' = Quiet
  /\ UNCHANGED <<config, now, users, refreshTokens, tokenSeq, issued, rotations>>
  /\ UNCHANGED orgVars

\* User.findOne({ id: payload.userId }) and the status check
RefreshGetUser(r) ==
  /\ refreshReqs[r].pc = "getUser"
  /\ IF users[refreshReqs[r].token.userId].status # "active"
       THEN RefreshDone(r, "User not found or inactive", None)
       ELSE /\ refreshReqs' = [refreshReqs EXCEPT ![r].pc = "deleteOld"]
            /\ authOut' = Quiet
  /\ UNCHANGED <<config, now, users, refreshTokens, tokenSeq, issued, rotations>>
  /\ UNCHANGED orgVars

\* await RefreshToken.deleteOne({ id: storedToken.id })
RefreshDeleteOld(r) ==
  /\ refreshReqs[r].pc = "deleteOld"
  /\ refreshTokens' = DeleteOneById(refreshTokens, refreshReqs[r].stored.id)
  /\ refreshReqs' = [refreshReqs EXCEPT ![r].pc = "create"]
  /\ authOut' = Quiet
  /\ UNCHANGED <<config, now, users, tokenSeq, issued, rotations>>
  /\ UNCHANGED orgVars

\* return createAuthTokens(user, userAgent, ipAddress)
RefreshCreate(r) ==
  /\ refreshReqs[r].pc = "create"
  /\ CreateAuthTokens(refreshReqs[r].token.userId)
  /\ RefreshDone(r, "ok", NewRefreshToken(refreshReqs[r].token.userId))
  /\ rotations' = rotations \cup
       {<<refreshReqs[r].token, NewRefreshToken(refreshReqs[r].token.userId)>>}
  /\ UNCHANGED <<config, now, users>>
  /\ UNCHANGED orgVars

\* logoutUser(refreshToken)
LogoutUser(token) ==
  /\ refreshTokens' = DeleteOneByToken(refreshTokens, StoredTokenValue(token))
  /\ authOut' = Returned("logout", token.userId, token, FALSE, "ok", None)
  /\ UNCHANGED <<config, now, users, tokenSeq, issued, rotations, refreshReqs>>
  /\ UNCHANGED orgVars

\* logoutAllDevices(userId)
LogoutAllDevices(userId) ==
  /\ refreshTokens' = DeleteManyByUser(refreshTokens, userId)
  /\ authOut' = Quiet
  /\ UNCHANGED <<config, now, users, tokenSeq, issued, rotations, refreshReqs>>
  /\ UNCHANGED orgVars

\* the clock advances
Tick ==
  /\ now < MaxTime
  /\ now' = now + 1
  /\ UNCHANGED authStore
  /\ authOut' = Quiet
  /\ UNCHANGED orgVars

(***************************************************************************)
(* Organizations, memberships, invitations: models and org.service         *)
(***************************************************************************)
Roles == {"org_admin", "manager", "technician"}
OrgStatuses == {"active", "inactive", "suspended"}
Slugs == {"acme", "beta"}      \* the slugs requests name
NewSlugs == {"acme"}           \* the slugs createOrganization requests ask for
Creators == {"u1"}             \* the users who send createOrganization requests
InviteRoles == {"technician"}  \* the roles inviteMember requests ask for (the schema's default)
UpdateStatuses == {"active", "inactive"}  \* the statuses updateOrganization requests ask for
ConcUsers == {"u1", "u2"}      \* the members whose requests overlap
Null == "null"                 \* deletedAt: null
Deleted == "date"              \* deletedAt: new Date()
Absent == "undefined"          \* a field the request body does not carry

\* a user's email address is written as the user's id
EmailOf(userId) == userId

\* generateNumericId(collection): an id no document of the collection has
FreshId(rows) == Cardinality(rows) + 1

\* nanoid(32), unique among the invitations
InvitationToken(id) == <<"invitation-token", id>>

getOrganizationAnySlug(slug) ==
  LET m == {o \in orgs : o.deletedAt = Null}
  IN  IF m = {} THEN None ELSE CHOOSE o \in m : TRUE

\* Organization.findOne({ slug, deletedAt: null })
getOrganizationBySlug(slug) ==
  LET m == {o \in orgs : o.slug = slug /\ o.deletedAt = Null}
  IN  IF m = {} THEN None ELSE CHOOSE o \in m : TRUE

getMembershipAnyRow(userId, orgId) ==
  LET m == {x \in memberships : x.userId = userId /\ x.orgId = orgId}
  IN  IF m = {} THEN None ELSE CHOOSE x \in m : TRUE

\* Membership.findOne({ userId, orgId, deletedAt: null })
getMembership(userId, orgId) ==
  LET m == {x \in memberships :
              x.userId = userId /\ x.orgId = orgId /\ x.deletedAt = Null}
  IN  IF m = {} THEN None ELSE CHOOSE x \in m : TRUE

\* Membership.findOne({ _id, orgId, deletedAt: null })
FindMember(memberId, orgId) ==
  LET m == {x \in memberships :
              x._id = memberId /\ x.orgId = orgId /\ x.deletedAt = Null}
  IN  IF m = {} THEN None ELSE CHOOSE x \in m : TRUE

AdminCountWithDeleted(orgId) ==
  Cardinality({x \in memberships :
                 x.orgId = orgId /\ x.role = "org_admin" /\ x.status = "active"})

\* Membership.countDocuments({ orgId, role: 'org_admin', status: 'active', deletedAt: null })
AdminCount(orgId) ==
  Cardinality({x \in memberships :
                 /\ x.orgId = orgId
                 /\ x.role = "org_admin"
                 /\ x.status = "active"
                 /\ x.deletedAt = Null})

MembershipIndexAllowsAny(userId, orgId) == TRUE

\* membershipSchema.index({ userId: 1, orgId: 1 }, { unique: true }): may this row
\* be inserted
MembershipIndexAllows(userId, orgId) ==
  \A x \in memberships : ~(x.userId = userId /\ x.orgId = orgId)

\* the row Membership.create inserts (createOrganization, acceptInvitation)
NewMembership(userId, orgId, role) ==
  [_id |-> FreshId(memberships), userId |-> userId, orgId |-> orgId,
   role |-> role, status |-> "active", deletedAt |-> Null]

\* updateMemberRole: findOneAndUpdate({ _id, orgId, deletedAt: null }, { $set: { role } })
updateMemberRole(memberId, orgId, role) ==
  {IF x._id = memberId /\ x.orgId = orgId /\ x.deletedAt = Null
     THEN [x EXCEPT !.role = role] ELSE x : x \in memberships}

\* removeMember: findOneAndUpdate({ _id, orgId, deletedAt: null }, { $set: { deletedAt } })
removeMember(memberId, orgId) ==
  {IF x._id = memberId /\ x.orgId = orgId /\ x.deletedAt = Null
     THEN [x EXCEPT !.deletedAt = Deleted] ELSE x : x \in memberships}

(***************************************************************************)
(* Routes (org.routes, test.routes) and the request pipeline                *)
(***************************************************************************)
MemberRoutes == {"updateMemberRole", "removeMember"}
RoleRoutes == {"updateOrganization", "inviteMember", "getTests"}
OrgRoutes == MemberRoutes \cup RoleRoutes

\* the minimum role a route declares: requireOrgAdmin, requireManager, requireMember
RequiredRole(route) == CASE route = "updateOrganization" -> "org_admin"
                         [] route = "inviteMember" -> "manager"
                         [] route = "getTests" -> "technician"
                         [] route = "getTestById" -> "technician"
                         [] route = "updateTest" -> "manager"
                         [] route = "deleteTest" -> "manager"
                         [] route = "cancelInvitation" -> "manager"
                         [] route = "getOrganizationInvitations" -> "manager"

\* the middleware and handler chain a route declares, after authenticate
Pipeline(route) ==
  IF route \in MemberRoutes
    THEN <<"loadOrgContext", "canManageMember", "preventLastAdminModification", "handler">>
    ELSE <<"loadOrgContext", "requireRole", "handler">>

\* next(): the stage that follows a stage of the route's chain
StageAfter(route, stage) ==
  LET chain == Pipeline(route)
      i == CHOOSE k \in 1..Len(chain) : chain[k] = stage
  IN  chain[i + 1]

IdleReq == [pc |-> "idle"]
InFlight == {r \in DOMAIN reqs : reqs[r].pc # "idle"}

\* a request as it arrives, authenticated as userId
NewRequest(route, userId, orgSlug, memberId, body) ==
  [pc |-> "loadOrgContext", route |-> route, userId |-> userId, orgSlug |-> orgSlug,
   memberId |-> memberId, body |-> body,
   org |-> None, membership |-> None, targetMembership |-> None]

\* the role loadOrgContext resolved for the caller, if it got that far
ResolvedRole(q) == IF q.membership = None THEN Absent ELSE q.membership.role

RespondWithoutReturn(r, q, code, message) ==
  /\ resp' = [userId |-> q.userId, orgSlug |-> q.orgSlug,
              role |-> ResolvedRole(q), stage |-> q.pc,
              code |-> code, message |-> message]
  /\ reqs' = [reqs EXCEPT ![r] =
                IF q.pc = "handler" THEN IdleReq
                ELSE [q EXCEPT !.pc = StageAfter(q.route, q.pc)]]

\* a response is sent by the stage q.pc of request q, and the request ends
Respond(r, q, code, message) ==
  /\ resp' = [userId |-> q.userId, orgSlug |-> q.orgSlug,
              role |-> ResolvedRole(q), stage |-> q.pc,
              code |-> code, message |-> message]
  /\ reqs' = [reqs EXCEPT ![r] = IdleReq]

\* next() is called: request q goes on to the stage after q.pc
Proceed(r, q) ==
  /\ resp' = Quiet
  /\ reqs' = [reqs EXCEPT ![r] = [q EXCEPT !.pc = StageAfter(q.route, q.pc)]]

\* roleHierarchy
roleHierarchy == [org_admin |-> 3, manager |-> 2, technician |-> 1]

hasRequiredRoleStrict(userRole, requiredRole) ==
  roleHierarchy[userRole] > roleHierarchy[requiredRole]

\* hasRequiredRole
hasRequiredRole(userRole, requiredRole) ==
  roleHierarchy[userRole] >= roleHierarchy[requiredRole]

\* the bodies requests carry, by route
Bodies(route) ==
  CASE route = "updateMemberRole" -> [role : Roles \cup {Absent}]
    [] route = "removeMember" -> {[role |-> Absent]}
    [] route = "updateOrganization" -> [status : UpdateStatuses]
    [] route = "inviteMember" -> [email : Users \ Creators, role : InviteRoles]
    [] route = "getTests" -> {[role |-> Absent]}

\* the member ids requests name
MemberIds(route) ==
  IF route \in MemberRoutes THEN 1..(Cardinality(Users) * MaxOrgs) ELSE {0}

\* may a request start now: one at a time, unless requests overlap
MayStart(overlap) == overlap \/ InFlight = {}

LoadOrgContextChecksAnyStatus(r, q) ==
  LET org == getOrganizationBySlug(q.orgSlug)
      membership == IF org = None THEN None ELSE getMembership(q.userId, org._id)
  IN  IF org = None
        THEN Respond(r, q, "NOT_FOUND", "Organization not found")
      ELSE IF membership = None \/ membership.status # "active"
        THEN Respond(r, q, "FORBIDDEN", "You do not have access to this organization")
      ELSE Proceed(r, [q EXCEPT !.org = org, !.membership = membership])

\* the body of loadOrgContext, run for request q in slot r
LoadOrgContextChecks(r, q) ==
  LET org == getOrganizationBySlug(q.orgSlug)
      membership == IF org = None THEN None ELSE getMembership(q.userId, org._id)
  IN  IF org = None
        THEN Respond(r, q, "NOT_FOUND", "Organization not found")
      ELSE IF org.status # "active"
        THEN Respond(r, q, "FORBIDDEN", "Organization is not active")
      ELSE IF membership = None \/ membership.status # "active"
        THEN Respond(r, q, "FORBIDDEN", "You do not have access to this organization")
      ELSE Proceed(r, [q EXCEPT !.org = org, !.membership = membership])

\* a request arrives, authenticate has set req.userId, and loadOrgContext runs
LoadOrgContext(r, route, userId, orgSlug, memberId, body, overlap) ==
  /\ reqs[r].pc = "idle"
  /\ \A q \in 1..(r - 1) : reqs[q].pc # "idle"
  /\ MayStart(overlap)
  /\ LoadOrgContextChecks(r, NewRequest(route, userId, orgSlug, memberId, body))
  /\ UNCHANGED <<orgs, memberships, invitations, now>>
  /\ UNCHANGED <<authVars, tests>>

\* `This action requires ${requiredRole} role or higher`
InsufficientRoleMessage(requiredRole) ==
  CASE requiredRole = "org_admin" -> "This action requires org_admin role or higher"
    [] requiredRole = "manager" -> "This action requires manager role or higher"
    [] requiredRole = "technician" -> "This action requires technician role or higher"

\* requireRole(requiredRole)
RequireRole(r) ==
  /\ reqs[r].pc = "requireRole"
  /\ LET q == reqs[r]
     IN  IF q.membership = None
           THEN Respond(r, q, "FORBIDDEN", "Organization context not loaded")
         ELSE IF ~hasRequiredRole(q.membership.role, RequiredRole(q.route))
           THEN Respond(r, q, "FORBIDDEN", InsufficientRoleMessage(RequiredRole(q.route)))
         ELSE Proceed(r, q)
  /\ UNCHANGED <<orgs, memberships, invitations, now>>
  /\ UNCHANGED <<authVars, tests>>

MayManageAnyoneAsManager(callerRole, targetRole) ==
  callerRole = "org_admin" \/ callerRole = "manager"

\* canManageMember's two grants: an org_admin manages anyone, a manager manages
\* technicians
MayManage(callerRole, targetRole) ==
  \/ callerRole = "org_admin"
  \/ callerRole = "manager" /\ targetRole = "technician"

\* canManageMember
CanManageMember(r) ==
  /\ reqs[r].pc = "canManageMember"
  /\ LET q == reqs[r]
         targetMembership == FindMember(q.memberId, q.org._id)
         found == [q EXCEPT !.targetMembership = targetMembership]
     IN  IF q.membership = None
           THEN Respond(r, q, "FORBIDDEN", "Organization context not loaded")
         ELSE IF targetMembership = None
           THEN Respond(r, q, "NOT_FOUND", "Member not found")
         ELSE IF MayManage(q.membership.role, targetMembership.role)
           THEN Proceed(r, found)
         ELSE Respond(r, found, "FORBIDDEN",
                      "You do not have permission to manage this member")
  /\ UNCHANGED <<orgs, memberships, invitations, now>>
  /\ UNCHANGED <<authVars, tests>>

IsLastAdminCountLax(adminCount) == adminCount < 1

\* if (adminCount <= 1)
IsLastAdminCount(adminCount) == adminCount <= 1

\* preventLastAdminModification
PreventLastAdminModification(r) ==
  /\ reqs[r].pc = "preventLastAdminModification"
  /\ LET q == reqs[r]
         newRole == q.body.role
     IN  IF q.membership._id # q.targetMembership._id
           THEN Proceed(r, q)
         ELSE IF /\ \/ (newRole # Absent /\ newRole # "org_admin")
                    \/ q.route = "removeMember"
                 /\ IsLastAdminCount(AdminCount(q.org._id))
           THEN Respond(r, q, "BAD_REQUEST",
                        "Cannot remove or demote the last organization admin")
         ELSE Proceed(r, q)
  /\ UNCHANGED <<orgs, memberships, invitations, now>>
  /\ UNCHANGED <<authVars, tests>>

\* the response of a route that runs no org pipeline
Reply(route, userId, body, code, message) ==
  resp' = [userId |-> userId, orgSlug |-> Absent,
           role |-> Absent, stage |-> route, body |-> body,
           code |-> code, message |-> message]

\* which insert of a transaction the store rejects, if any
InsertFailures == {"none", "organization", "membership"}

\* the text of the error a rejected insert throws
StoreErrorMessage == "Store write failed"

CommittedAnyway(visible, written, failed) == visible \cup written

\* session.commitTransaction() / session.abortTransaction(): the rows of a
\* collection visible after the transaction, given those written in its session
Committed(visible, written, failed) ==
  IF failed THEN visible ELSE visible \cup written

\* POST /api/orgs: org.controller createOrganization and org.service
\* createOrganization (one transaction); failure names the insert that throws
CreateOrganization(userId, slug, failure) ==
  /\ MayStart(FALSE)
  /\ LET body == [slug |-> slug]
         orgId == FreshId(orgs)
         org == [_id |-> orgId, slug |-> slug, status |-> "active",
                 createdBy |-> userId, deletedAt |-> Null]
         orgWritten == IF failure = "organization" THEN {} ELSE {org}
         membershipWritten == IF failure = "none"
                                THEN {NewMembership(userId, orgId, "org_admin")}
                                ELSE {}
     IN  IF slug = Absent
           THEN /\ Reply("createOrganization", userId, body,
                         "VALIDATION_ERROR", "Validation failed")
                /\ UNCHANGED <<orgs, memberships>>
         ELSE IF \E o \in orgs : o.slug = slug
           THEN /\ Reply("createOrganization", userId, body,
                         "INTERNAL_ERROR", "Organization slug is already taken")
                /\ UNCHANGED <<orgs, memberships>>
         ELSE /\ Cardinality(orgs) < MaxOrgs
              /\ orgs' = Committed(orgs, orgWritten, failure # "none")
              /\ memberships' = Committed(memberships, membershipWritten,
                                          failure # "none")
              /\ IF failure # "none"
                   THEN Reply("createOrganization", userId, body,
                              "INTERNAL_ERROR", StoreErrorMessage)
                   ELSE Reply("createOrganization", userId, body, "OK",
                              "Organization created successfully")
  /\ UNCHANGED <<invitations, reqs, now>>
  /\ UNCHANGED <<authVars, tests>>

\* POST /api/orgs/accept-invitation: org.controller acceptInvitation and
\* org.service acceptInvitation (one transaction)
AcceptInvitation(userId, token) ==
  /\ MayStart(FALSE)
  /\ LET body == [token |-> token]
         found == {i \in invitations : i.token = token /\ i.deletedAt = Null}
         invitation == CHOOSE i \in found : TRUE
         Fail(message) ==
           /\ Reply("acceptInvitation", userId, body, "INTERNAL_ERROR", message)
           /\ UNCHANGED <<memberships, invitations>>
     IN  IF found = {} THEN Fail("Invitation not found")
         ELSE IF invitation.status # "pending" THEN Fail("Invitation is no longer valid")
         ELSE IF invitation.expiresAt < now THEN Fail("Invitation has expired")
         ELSE IF EmailOf(userId) # invitation.email
           THEN Fail("This invitation is for a different email address")
         ELSE IF getMembership(userId, invitation.orgId) # None
           THEN Fail("You are already a member of this organization")
         ELSE IF ~MembershipIndexAllows(userId, invitation.orgId)
           THEN Fail("E11000 duplicate key error")
         ELSE IF \A o \in orgs : ~(o._id = invitation.orgId /\ o.deletedAt = Null)
           THEN Fail("Organization not found")
         ELSE /\ memberships' = memberships \cup
                   {NewMembership(userId, invitation.orgId, invitation.role)}
              /\ invitations' = (invitations \ {invitation}) \cup
                   {[invitation EXCEPT !.status = "accepted"]}
              /\ Reply("acceptInvitation", userId, body, "OK",
                       "Invitation accepted successfully")
  /\ UNCHANGED <<orgs, reqs, now>>
  /\ UNCHANGED <<authVars, tests>>

\* POST /:orgSlug/invitations: org.controller inviteMember and org.service
\* inviteMember (one transaction)
HandleInviteMember(r) ==
  /\ reqs[r].pc = "handler"
  /\ reqs[r].route = "inviteMember"
  /\ LET q == reqs[r]
         org == getOrganizationBySlug(q.orgSlug)
         email == q.body.email
         id == FreshId(invitations)
     IN  IF org = None
           THEN /\ Respond(r, q, "NOT_FOUND", "Organization not found")
                /\ UNCHANGED invitations
         ELSE IF email \in Users /\ getMembership(email, org._id) # None
           THEN /\ Respond(r, q, "INTERNAL_ERROR",
                           "User is already a member of this organization")
                /\ UNCHANGED invitations
         ELSE IF \E i \in invitations : /\ i.email = email
                                        /\ i.orgId = org._id
                                        /\ i.status = "pending"
                                        /\ i.deletedAt = Null
           THEN /\ Respond(r, q, "INTERNAL_ERROR",
                           "An invitation is already pending for this email")
                /\ UNCHANGED invitations
         ELSE /\ Cardinality(invitations) < MaxInvitations
              /\ invitations' = invitations \cup
                   {[_id |-> id, email |-> email, orgId |-> org._id,
                     role |-> q.body.role, token |-> InvitationToken(id),
                     invitedBy |-> q.userId, expiresAt |-> now + 1,
                     status |-> "pending", deletedAt |-> Null]}
              /\ Respond(r, q, "OK", "Invitation sent successfully")
  /\ UNCHANGED <<orgs, memberships, now>>
  /\ UNCHANGED <<authVars, tests>>

\* PUT /:orgSlug: org.controller updateOrganization and org.service updateOrganization
HandleUpdateOrganization(r) ==
  /\ reqs[r].pc = "handler"
  /\ reqs[r].route = "updateOrganization"
  /\ LET q == reqs[r]
         org == getOrganizationBySlug(q.orgSlug)
     IN  IF org = None
           THEN /\ Respond(r, q, "NOT_FOUND", "Organization not found")
                /\ UNCHANGED orgs
           ELSE /\ orgs' = (orgs \ {org}) \cup {[org EXCEPT !.status = q.body.status]}
                /\ Respond(r, q, "OK", "Organization updated successfully")
  /\ UNCHANGED <<memberships, invitations, now>>
  /\ UNCHANGED <<authVars, tests>>

\* GET /:orgSlug/tests: test.controller getTests (reads only)
HandleGetTests(r) ==
  /\ reqs[r].pc = "handler"
  /\ reqs[r].route = "getTests"
  /\ Respond(r, reqs[r], "OK", "")
  /\ UNCHANGED <<orgs, memberships, invitations, now>>
  /\ UNCHANGED <<authVars, tests>>

\* PUT /:orgSlug/members/:memberId/role: org.controller updateMemberRole
HandleUpdateMemberRole(r) ==
  /\ reqs[r].pc = "handler"
  /\ reqs[r].route = "updateMemberRole"
  /\ LET q == reqs[r]
         org == getOrganizationBySlug(q.orgSlug)
     IN  IF q.body.role \notin Roles
           THEN /\ Respond(r, q, "VALIDATION_ERROR", "Validation failed")
                /\ UNCHANGED memberships
         ELSE IF org = None
           THEN /\ Respond(r, q, "NOT_FOUND", "Organization not found")
                /\ UNCHANGED memberships
         ELSE IF FindMember(q.memberId, org._id) = None
           THEN /\ Respond(r, q, "NOT_FOUND", "Member not found")
                /\ UNCHANGED memberships
         ELSE /\ memberships' = updateMemberRole(q.memberId, org._id, q.body.role)
              /\ Respond(r, q, "OK", "Member role updated successfully")
  /\ UNCHANGED <<orgs, invitations, now>>
  /\ UNCHANGED <<authVars, tests>>

\* DELETE /:orgSlug/members/:memberId: org.controller removeMember
HandleRemoveMember(r) ==
  /\ reqs[r].pc = "handler"
  /\ reqs[r].route = "removeMember"
  /\ LET q == reqs[r]
         org == getOrganizationBySlug(q.orgSlug)
     IN  IF org = None
           THEN /\ Respond(r, q, "NOT_FOUND", "Organization not found")
                /\ UNCHANGED memberships
         ELSE IF FindMember(q.memberId, org._id) = None
           THEN /\ Respond(r, q, "NOT_FOUND", "Member not found")
                /\ UNCHANGED memberships
         ELSE /\ memberships' = removeMember(q.memberId, org._id)
              /\ Respond(r, q, "OK", "Member removed successfully")
  /\ UNCHANGED <<orgs, invitations, now>>
  /\ UNCHANGED <<authVars, tests>>

InitOrgEmpty ==
  /\ orgs = {}
  /\ memberships = {}
  /\ invitations = {}
  /\ reqs = <<>>
  /\ resp = Quiet
  /\ tests = {}

InitAuth ==
  /\ config \in [refreshExpiry : RefreshExpirySettings]
  /\ now = 0
  /\ users = RegisteredUsers
  /\ refreshTokens = {}
  /\ tokenSeq = 0
  /\ issued = {}
  /\ rotations = {}
  /\ authOut = Quiet
  /\ refreshReqs = [r \in 1..MaxRefreshReqs |-> IdleRefresh]
  /\ InitOrgEmpty

NextAuth ==
  \/ \E email \in LoginEmails, passwordOk \in BOOLEAN : LoginUser(email, passwordOk)
  \/ \E r \in 1..MaxRefreshReqs, token \in PresentableTokens : RefreshFind(r, token)
  \/ \E r \in 1..MaxRefreshReqs : RefreshDeleteExpired(r)
  \/ \E r \in 1..MaxRefreshReqs : RefreshGetUser(r)
  \/ \E r \in 1..MaxRefreshReqs : RefreshDeleteOld(r)
  \/ \E r \in 1..MaxRefreshReqs : RefreshCreate(r)
  \/ \E token \in PresentableTokens : LogoutUser(token)
  \/ \E userId \in Users : LogoutAllDevices(userId)
  \/ Tick

SpecAuth == InitAuth /\ [][NextAuth]_vars

\* the account that signed in first
Deactivated == "u2"

\* the refresh token Deactivated got when signing in at time 0
DeactivatedToken == generateRefreshToken(Deactivated, 1, 0)

\* Deactivated signed in while active and the account's status was then set to
\* inactive or suspended in the store; the session's row is still there
InitDeactivated ==
  /\ config \in [refreshExpiry : RefreshExpirySettings]
  /\ now = 0
  /\ \E status \in UserStatuses \ {"active"} :
       users = [RegisteredUsers EXCEPT ![Deactivated].status = status]
  /\ refreshTokens = {[id |-> 1,
                       token |-> StoredTokenValue(DeactivatedToken),
                       userId |-> Deactivated,
                       expiresAt |-> StoredExpiry(0)]}
  /\ tokenSeq = 1
  /\ issued = {DeactivatedToken}
  /\ rotations = {}
  /\ authOut = Quiet
  /\ refreshReqs = [r \in 1..MaxRefreshReqs |-> IdleRefresh]
  /\ InitOrgEmpty

\* the auth service with a deactivated account's session in the store
SpecDeactivated == InitDeactivated /\ [][NextAuth]_vars

\* the time, before the runs start, at which a session still stored was opened:
\* as long before as the default refresh expiry setting counts
OldSessionIssuedAt == 0 - ParseInt(RefreshExpiryDefault)

\* the refresh token of that session
OldSessionToken == generateRefreshToken("u1", 1, OldSessionIssuedAt)

\* u1 signed in at OldSessionIssuedAt and has not used the session since
InitOldSession ==
  /\ config \in [refreshExpiry : RefreshExpirySettings]
  /\ now = 0
  /\ users = RegisteredUsers
  /\ refreshTokens = {[id |-> 1,
                       token |-> StoredTokenValue(OldSessionToken),
                       userId |-> "u1",
                       expiresAt |-> StoredExpiry(OldSessionIssuedAt)]}
  /\ tokenSeq = 1
  /\ issued = {OldSessionToken}
  /\ rotations = {}
  /\ authOut = Quiet
  /\ refreshReqs = [r \in 1..MaxRefreshReqs |-> IdleRefresh]
  /\ InitOrgEmpty

\* the auth service with an old session's row in the store
SpecOldSession == InitOldSession /\ [][NextAuth]_vars

InitOrg ==
  /\ config = [refreshExpiry |-> RefreshExpiryDefault]
  /\ now = 0
  /\ users = [u \in Users |-> [status |-> "active"]]
  /\ refreshTokens = {}
  /\ tokenSeq = 0
  /\ issued = {}
  /\ rotations = {}
  /\ authOut = Quiet
  /\ refreshReqs = [r \in 1..MaxRefreshReqs |-> IdleRefresh]
  /\ orgs = {}
  /\ memberships = {}
  /\ invitations = {}
  /\ reqs = [r \in 1..MaxInflight |-> IdleReq]
  /\ resp = Quiet
  /\ tests = {}

\* the org routes, each request processed to completion before the next starts
NextSeq ==
  \/ \E userId \in Creators, slug \in NewSlugs \cup {Absent}, failure \in InsertFailures :
       CreateOrganization(userId, slug, failure)
  \/ \E userId \in Users, id \in 1..MaxInvitations :
       AcceptInvitation(userId, InvitationToken(id))
  \/ \E r \in 1..MaxInflight, route \in OrgRoutes, userId \in Users, orgSlug \in Slugs :
       \E memberId \in MemberIds(route), body \in Bodies(route) :
         LoadOrgContext(r, route, userId, orgSlug, memberId, body, FALSE)
  \/ \E r \in 1..MaxInflight : RequireRole(r)
  \/ \E r \in 1..MaxInflight : CanManageMember(r)
  \/ \E r \in 1..MaxInflight : PreventLastAdminModification(r)
  \/ \E r \in 1..MaxInflight : HandleInviteMember(r)
  \/ \E r \in 1..MaxInflight : HandleUpdateOrganization(r)
  \/ \E r \in 1..MaxInflight : HandleGetTests(r)
  \/ \E r \in 1..MaxInflight : HandleUpdateMemberRole(r)
  \/ \E r \in 1..MaxInflight : HandleRemoveMember(r)

SpecSeq == InitOrg /\ [][NextSeq]_vars

\* an organization u1 created and u2 joined by invitation, u2 holding any role
InitConc ==
  /\ config = [refreshExpiry |-> RefreshExpiryDefault]
  /\ now = 0
  /\ users = [u \in Users |-> [status |-> "active"]]
  /\ refreshTokens = {}
  /\ tokenSeq = 0
  /\ issued = {}
  /\ rotations = {}
  /\ authOut = Quiet
  /\ refreshReqs = [r \in 1..MaxRefreshReqs |-> IdleRefresh]
  /\ orgs = {[_id |-> 1, slug |-> "acme", status |-> "active",
              createdBy |-> "u1", deletedAt |-> Null]}
  /\ \E role \in Roles :
       memberships = {[_id |-> 1, userId |-> "u1", orgId |-> 1, role |-> "org_admin",
                       status |-> "active", deletedAt |-> Null],
                      [_id |-> 2, userId |-> "u2", orgId |-> 1, role |-> role,
                       status |-> "active", deletedAt |-> Null]}
  /\ invitations = {[_id |-> 1, email |-> EmailOf("u2"), orgId |-> 1,
                     role |-> "technician", token |-> InvitationToken(1),
                     invitedBy |-> "u1", expiresAt |-> 1,
                     status |-> "accepted", deletedAt |-> Null]}
  /\ reqs = [r \in 1..MaxInflight |-> IdleReq]
  /\ resp = Quiet
  /\ tests = {}

\* member-management requests in flight together: the middleware and handler steps
\* of one request interleave with those of the others
NextConc ==
  \/ \E r \in 1..MaxInflight, route \in MemberRoutes, userId \in ConcUsers :
       \E orgSlug \in NewSlugs, memberId \in MemberIds(route), body \in Bodies(route) :
         LoadOrgContext(r, route, userId, orgSlug, memberId, body, TRUE)
  \/ \E r \in 1..MaxInflight : CanManageMember(r)
  \/ \E r \in 1..MaxInflight : PreventLastAdminModification(r)
  \/ \E r \in 1..MaxInflight : HandleUpdateMemberRole(r)
  \/ \E r \in 1..MaxInflight : HandleRemoveMember(r)

SpecConc == InitConc /\ [][NextConc]_vars

(***************************************************************************)
(* authenticate (auth.middleware) in front of the org routes                *)
(***************************************************************************)
\* the tokens a client may present at time t: access tokens issued up to t, a
\* token signed at t with another key, and a string that is no token
AccessTokens(t) ==
  {generateAccessToken(u, t0) : u \in Users, t0 \in 0..t}
    \cup {[generateAccessToken(u, t) EXCEPT !.sig = RefreshSecret] : u \in Creators}
    \cup {Malformed}

NoHeader == [scheme |-> "none", token |-> Malformed]

\* req.headers.authorization
Headers(t) ==
  {NoHeader}
    \cup {[scheme |-> "Basic", token |-> generateAccessToken(u, t)] : u \in Creators}
    \cup {[scheme |-> "Bearer", token |-> tok] : tok \in AccessTokens(t)}

\* errorResponses.unauthorized(res, message), sent by authenticate
Unauthorized(header, orgSlug, message) ==
  [userId |-> Absent, orgSlug |-> orgSlug, role |-> Absent, stage |-> "authenticate",
   code |-> "UNAUTHORIZED", message |-> message, header |-> header]

\* the request as authenticate hands it on: req.userId set from the payload
Authenticated(header, route, orgSlug, memberId, body) ==
  ("header" :> header) @@
     NewRequest(route, header.token.userId, orgSlug, memberId, body)

\* a request arrives and authenticate runs
Authenticate(r, header, route, orgSlug, memberId, body) ==
  /\ reqs[r].pc = "idle"
  /\ \A q \in 1..(r - 1) : reqs[q].pc # "idle"
  /\ MayStart(FALSE)
  /\ IF header.scheme # "Bearer"
       THEN /\ resp' = Unauthorized(header, orgSlug, "No access token provided")
            /\ UNCHANGED reqs
     ELSE IF ~verifyAccessToken(header.token, now)
       THEN /\ resp' = Unauthorized(header, orgSlug, "Invalid or expired access token")
            /\ UNCHANGED reqs
     ELSE /\ resp' = Quiet
          /\ reqs' = [reqs EXCEPT ![r] =
                        Authenticated(header, route, orgSlug, memberId, body)]
  /\ UNCHANGED <<orgs, memberships, invitations, now>>
  /\ UNCHANGED <<authVars, tests>>

\* loadOrgContext runs for the request authenticate handed on
LoadOrgContextNext(r) ==
  /\ reqs[r].pc = "loadOrgContext"
  /\ LoadOrgContextChecks(r, reqs[r])
  /\ UNCHANGED <<orgs, memberships, invitations, now>>
  /\ UNCHANGED <<authVars, tests>>

\* an organization u1 created and u2 joined by invitation, u2 holding any role,
\* at any time
InitPipe ==
  /\ config = [refreshExpiry |-> RefreshExpiryDefault]
  /\ now \in 0..MaxTime
  /\ users = [u \in Users |-> [status |-> "active"]]
  /\ refreshTokens = {}
  /\ tokenSeq = 0
  /\ issued = {}
  /\ rotations = {}
  /\ authOut = Quiet
  /\ refreshReqs = [r \in 1..MaxRefreshReqs |-> IdleRefresh]
  /\ orgs = {[_id |-> 1, slug |-> "acme", status |-> "active",
              createdBy |-> "u1", deletedAt |-> Null]}
  /\ \E role \in Roles :
       memberships = {[_id |-> 1, userId |-> "u1", orgId |-> 1, role |-> "org_admin",
                       status |-> "active", deletedAt |-> Null],
                      [_id |-> 2, userId |-> "u2", orgId |-> 1, role |-> role,
                       status |-> "active", deletedAt |-> Null]}
  /\ invitations = {[_id |-> 1, email |-> EmailOf("u2"), orgId |-> 1,
                     role |-> "technician", token |-> InvitationToken(1),
                     invitedBy |-> "u1", expiresAt |-> 1,
                     status |-> "accepted", deletedAt |-> Null]}
  /\ reqs = [r \in 1..MaxInflight |-> IdleReq]
  /\ resp = Quiet
  /\ tests = {}

\* a request of the pipeline runs a stage
PipeStep(r) ==
  \/ LoadOrgContextNext(r)
  \/ RequireRole(r)
  \/ CanManageMember(r)
  \/ PreventLastAdminModification(r)
  \/ HandleInviteMember(r)
  \/ HandleUpdateOrganization(r)
  \/ HandleGetTests(r)
  \/ HandleUpdateMemberRole(r)
  \/ HandleRemoveMember(r)

\* the org routes behind authenticate, one request at a time
NextPipe ==
  \/ \E r \in 1..MaxInflight, header \in Headers(now), route \in OrgRoutes :
       \E orgSlug \in Slugs, memberId \in MemberIds(route), body \in Bodies(route) :
         /\ route = "inviteMember" => Cardinality(invitations) < MaxInvitations
         /\ Authenticate(r, header, route, orgSlug, memberId, body)
  \/ \E r \in 1..MaxInflight : PipeStep(r)

\* express runs every stage of a request it has accepted
SpecPipe ==
  InitPipe /\ [][NextPipe]_vars /\ \A r \in 1..MaxInflight : WF_vars(PipeStep(r))

(***************************************************************************)
(* createOrganization calls that overlap                                   *)
(***************************************************************************)
\* organizations the overlapping createOrganization runs may create
MaxCreated == 2

SlugIndexAllowsAny(slug) == TRUE

\* organizationSchema.index({ slug: 1 }, { unique: true }): may a document with
\* this slug be inserted
SlugIndexAllows(slug) == \A o \in orgs : o.slug # slug

\* createOrganization up to its first write: validation in the controller, the
\* transaction's start and the read Organization.findOne({ slug })
CreateOrganizationBegin(r, userId, slug) ==
  /\ reqs[r].pc = "idle"
  /\ \A q \in 1..(r - 1) : reqs[q].pc # "idle"
  /\ LET body == [slug |-> slug]
     IN  IF slug = Absent
           THEN /\ Reply("createOrganization", userId, body,
                         "VALIDATION_ERROR", "Validation failed")
                /\ UNCHANGED reqs
         ELSE IF \E o \in orgs : o.slug = slug
           THEN /\ Reply("createOrganization", userId, body,
                         "INTERNAL_ERROR", "Organization slug is already taken")
                /\ UNCHANGED reqs
         ELSE /\ resp' = Quiet
              /\ reqs' = [reqs EXCEPT ![r] =
                   [pc |-> "createOrganization", route |-> "createOrganization",
                    userId |-> userId, body |-> body]]
  /\ UNCHANGED <<orgs, memberships, invitations, now>>
  /\ UNCHANGED <<authVars, tests>>

\* createOrganization from Organization.create to the end of the transaction:
\* the unique slug index refuses the insert when a transaction that committed
\* in between holds the slug
CreateOrganizationCommit(r) ==
  /\ reqs[r].pc = "createOrganization"
  /\ LET q == reqs[r]
         orgId == FreshId(orgs)
         org == [_id |-> orgId, slug |-> q.body.slug, status |-> "active",
                 createdBy |-> q.userId, deletedAt |-> Null]
         duplicate == ~SlugIndexAllows(q.body.slug)
     IN  /\ duplicate \/ Cardinality(orgs) < MaxCreated
         /\ orgs' = Committed(orgs, {org}, duplicate)
         /\ memberships' = Committed(memberships,
                                     {NewMembership(q.userId, orgId, "org_admin")},
                                     duplicate)
         /\ IF duplicate
              THEN Reply("createOrganization", q.userId, q.body,
                         "INTERNAL_ERROR", "E11000 duplicate key error")
              ELSE Reply("createOrganization", q.userId, q.body, "OK",
                         "Organization created successfully")
  /\ reqs' = [reqs EXCEPT ![r] = IdleReq]
  /\ UNCHANGED <<invitations, now>>
  /\ UNCHANGED <<authVars, tests>>

\* POST /api/orgs, the calls overlapping
NextCreate ==
  \/ \E r \in 1..MaxInflight, userId \in ConcUsers, slug \in Slugs \cup {Absent} :
       CreateOrganizationBegin(r, userId, slug)
  \/ \E r \in 1..MaxInflight : CreateOrganizationCommit(r)

SpecCreate == InitOrg /\ [][NextCreate]_vars

(***************************************************************************)
(* Test records (test.service, test.controller) and two tenants            *)
(***************************************************************************)
TestRoutes == {"getTestById", "updateTest", "deleteTest"}

\* the titles updateTest requests ask for
TestTitles == {"renamed"}

getTestByIdAnyOrg(testId, orgId) ==
  LET m == {t \in tests : t._id = testId /\ t.deletedAt = Null}
  IN  IF m = {} THEN None ELSE CHOOSE t \in m : TRUE

\* Test.findOne({ _id: testId, orgId, deletedAt: null })
getTestById(testId, orgId) ==
  LET m == {t \in tests : t._id = testId /\ t.orgId = orgId /\ t.deletedAt = Null}
  IN  IF m = {} THEN None ELSE CHOOSE t \in m : TRUE

\* Test.findOneAndUpdate({ _id: testId, orgId, deletedAt: null }, { $set: data })
updateTest(testId, orgId, data) ==
  {IF t._id = testId /\ t.orgId = orgId /\ t.deletedAt = Null
     THEN [t EXCEPT !.title = data.title] ELSE t : t \in tests}

\* Test.findOneAndUpdate({ _id: testId, orgId, deletedAt: null }, { $set: { deletedAt } })
deleteTest(testId, orgId) ==
  {IF t._id = testId /\ t.orgId = orgId /\ t.deletedAt = Null
     THEN [t EXCEPT !.deletedAt = Deleted] ELSE t : t \in tests}

\* a request of a test route as it arrives: req.params.testId beside the rest
TestRequest(route, userId, orgSlug, testId, body) ==
  ("testId" :> testId) @@ NewRequest(route, userId, orgSlug, 0, body)

\* sendSuccess(res, data, message): the response carries the records returned
RespondData(r, q, message, data) ==
  /\ resp' = [userId |-> q.userId, orgSlug |-> q.orgSlug,
              role |-> ResolvedRole(q), stage |-> q.pc,
              code |-> "OK", message |-> message, data |-> data]
  /\ reqs' = [reqs EXCEPT ![r] = IdleReq]

\* a request of a test route arrives, authenticated as userId, and
\* loadOrgContext runs
LoadOrgContextOfTest(r, route, userId, orgSlug, testId, body) ==
  /\ reqs[r].pc = "idle"
  /\ \A q \in 1..(r - 1) : reqs[q].pc # "idle"
  /\ MayStart(FALSE)
  /\ LoadOrgContextChecks(r, TestRequest(route, userId, orgSlug, testId, body))
  /\ UNCHANGED <<orgs, memberships, invitations, now, tests>>
  /\ UNCHANGED authVars

\* test.controller getTestById
HandleGetTestById(r) ==
  /\ reqs[r].pc = "handler"
  /\ reqs[r].route = "getTestById"
  /\ LET q == reqs[r]
         test == getTestById(q.testId, q.org._id)
     IN  IF test = None
           THEN Respond(r, q, "NOT_FOUND", "Test not found")
           ELSE RespondData(r, q, "", {test})
  /\ UNCHANGED <<orgs, memberships, invitations, now, tests>>
  /\ UNCHANGED authVars

\* test.controller updateTest
HandleUpdateTest(r) ==
  /\ reqs[r].pc = "handler"
  /\ reqs[r].route = "updateTest"
  /\ LET q == reqs[r]
     IN  IF getTestById(q.testId, q.org._id) = None
           THEN /\ Respond(r, q, "NOT_FOUND", "Test not found")
                /\ UNCHANGED tests
           ELSE /\ tests' = updateTest(q.testId, q.org._id, q.body)
                /\ RespondData(r, q, "Test updated successfully",
                               {[getTestById(q.testId, q.org._id)
                                   EXCEPT !.title = q.body.title]})
  /\ UNCHANGED <<orgs, memberships, invitations, now>>
  /\ UNCHANGED authVars

\* test.controller deleteTest
HandleDeleteTest(r) ==
  /\ reqs[r].pc = "handler"
  /\ reqs[r].route = "deleteTest"
  /\ LET q == reqs[r]
     IN  IF getTestById(q.testId, q.org._id) = None
           THEN /\ Respond(r, q, "NOT_FOUND", "Test not found")
                /\ UNCHANGED tests
           ELSE /\ tests' = deleteTest(q.testId, q.org._id)
                /\ RespondData(r, q, "Test deleted successfully", {})
  /\ UNCHANGED <<orgs, memberships, invitations, now>>
  /\ UNCHANGED authVars

\* the users who send requests to the two tenants
TenantUsers == {"u1", "u2"}

\* two organizations: u1 administers acme, u2 administers beta, u3 is a
\* technician of both; each organization has one test
InitTenant ==
  /\ config = [refreshExpiry |-> RefreshExpiryDefault]
  /\ now = 0
  /\ users = [u \in Users |-> [status |-> "active"]]
  /\ refreshTokens = {}
  /\ tokenSeq = 0
  /\ issued = {}
  /\ rotations = {}
  /\ authOut = Quiet
  /\ refreshReqs = [r \in 1..MaxRefreshReqs |-> IdleRefresh]
  /\ orgs = {[_id |-> 1, slug |-> "acme", status |-> "active",
              createdBy |-> "u1", deletedAt |-> Null],
             [_id |-> 2, slug |-> "beta", status |-> "active",
              createdBy |-> "u2", deletedAt |-> Null]}
  /\ memberships =
       {[_id |-> 1, userId |-> "u1", orgId |-> 1, role |-> "org_admin",
         status |-> "active", deletedAt |-> Null],
        [_id |-> 2, userId |-> "u2", orgId |-> 2, role |-> "org_admin",
         status |-> "active", deletedAt |-> Null],
        [_id |-> 3, userId |-> "u3", orgId |-> 2, role |-> "technician",
         status |-> "active", deletedAt |-> Null],
        [_id |-> 4, userId |-> "u3", orgId |-> 1, role |-> "technician",
         status |-> "active", deletedAt |-> Null]}
  /\ invitations = {[_id |-> o, email |-> EmailOf("u3"), orgId |-> o,
                      role |-> "technician", token |-> InvitationToken(o),
                      invitedBy |-> IF o = 1 THEN "u1" ELSE "u2", expiresAt |-> 1,
                      status |-> "accepted", deletedAt |-> Null] : o \in 1..2}
  /\ reqs = [r \in 1..MaxInflight |-> IdleReq]
  /\ resp = Quiet
  /\ tests = {[_id |-> 1, orgId |-> 1, title |-> "first", deletedAt |-> Null],
              [_id |-> 2, orgId |-> 2, title |-> "second", deletedAt |-> Null]}

\* the member routes and the test routes of both tenants, one request at a time
NextTenant ==
  \/ \E r \in 1..MaxInflight, route \in MemberRoutes, userId \in TenantUsers :
       \E orgSlug \in Slugs, memberId \in {m._id : m \in memberships},
          body \in Bodies(route) :
         LoadOrgContext(r, route, userId, orgSlug, memberId, body, FALSE)
  \/ \E r \in 1..MaxInflight, route \in TestRoutes, userId \in TenantUsers :
       \E orgSlug \in Slugs, testId \in {t._id : t \in tests}, title \in TestTitles :
         LoadOrgContextOfTest(r, route, userId, orgSlug, testId, [title |-> title])
  \/ \E r \in 1..MaxInflight : RequireRole(r)
  \/ \E r \in 1..MaxInflight : CanManageMember(r)
  \/ \E r \in 1..MaxInflight : PreventLastAdminModification(r)
  \/ \E r \in 1..MaxInflight : HandleUpdateMemberRole(r)
  \/ \E r \in 1..MaxInflight : HandleRemoveMember(r)
  \/ \E r \in 1..MaxInflight : HandleGetTestById(r)
  \/ \E r \in 1..MaxInflight : HandleUpdateTest(r)
  \/ \E r \in 1..MaxInflight : HandleDeleteTest(r)

SpecTenant == InitTenant /\ [][NextTenant]_vars

(***************************************************************************)
(* Invitations: inviteMember, acceptInvitation, cancelInvitation and        *)
(* getOrganizationInvitations, one request at a time and overlapping        *)
(***************************************************************************)
InvitationRoutes == {"inviteMember", "cancelInvitation", "getOrganizationInvitations"}
Invitees == {"u2", "u3", "U3"}             \* the emails inviteMember requests name
Outsiders == {"u3"}                        \* the user overlapping requests invite

\* String.prototype.toLowerCase, and the schema option lowercase: true
toLowerCase(str) == IF str = "U3" THEN "u3" ELSE str
UnknownToken == <<"invitation-token", 0>>  \* a token no invitation carries

\* expiresAt: new Date(Date.now() + 7 days), in weeks
InvitationLifetime == 1

\* Invitation.findOne({ token, deletedAt: null })
getInvitationByToken(token) ==
  LET m == {i \in invitations : i.token = token /\ i.deletedAt = Null}
  IN  IF m = {} THEN None ELSE CHOOSE i \in m : TRUE

PendingUnexpiredInvitations(email, orgId) ==
  {i \in invitations : /\ i.email = email
                       /\ i.orgId = orgId
                       /\ i.status = "pending"
                       /\ i.expiresAt > now
                       /\ i.deletedAt = Null}

\* Invitation.findOne({ email, orgId, status: 'pending', deletedAt: null }): the
\* rows the filter matches
PendingInvitations(email, orgId) ==
  {i \in invitations : /\ i.email = email
                       /\ i.orgId = orgId
                       /\ i.status = "pending"
                       /\ i.deletedAt = Null}

\* getOrganizationInvitations: Invitation.find({ orgId, status: 'pending',
\* expiresAt: { $gt: new Date() }, deletedAt: null })
getOrganizationInvitations(orgId) ==
  {i \in invitations : /\ i.orgId = orgId
                       /\ i.status = "pending"
                       /\ i.expiresAt > now
                       /\ i.deletedAt = Null}

CancellableAnyStatus(invitationId, orgId) ==
  {i \in invitations : i._id = invitationId /\ i.orgId = orgId /\ i.deletedAt = Null}

\* the rows cancelInvitation's filter { _id, orgId, status: 'pending',
\* deletedAt: null } matches
Cancellable(invitationId, orgId) ==
  {i \in invitations : /\ i._id = invitationId
                       /\ i.orgId = orgId
                       /\ i.status = "pending"
                       /\ i.deletedAt = Null}

\* cancelInvitation: findOneAndUpdate(filter, { $set: { status: 'cancelled' } })
cancelInvitation(invitationId, orgId) ==
  {IF i \in Cancellable(invitationId, orgId)
     THEN [i EXCEPT !.status = "cancelled"] ELSE i : i \in invitations}

\* the inviteMember transactions that have read and not yet committed
InvitesInFlight ==
  {r \in DOMAIN reqs : reqs[r].pc = "commit" /\ reqs[r].route = "inviteMember"}

\* POST /:orgSlug/invitations: org.controller inviteMember and the reads of the
\* org.service inviteMember transaction
HandleInviteMemberBegin(r) ==
  /\ reqs[r].pc = "handler"
  /\ reqs[r].route = "inviteMember"
  /\ LET q == reqs[r]
         org == getOrganizationBySlug(q.orgSlug)
         email == toLowerCase(q.body.email)
     IN  IF org = None
           THEN Respond(r, q, "NOT_FOUND", "Organization not found")
         ELSE IF email \in Users /\ getMembership(email, org._id) # None
           THEN Respond(r, q, "INTERNAL_ERROR",
                        "User is already a member of this organization")
         ELSE IF PendingInvitations(email, org._id) # {}
           THEN Respond(r, q, "INTERNAL_ERROR",
                        "An invitation is already pending for this email")
         ELSE /\ Cardinality(invitations) + Cardinality(InvitesInFlight) < MaxInvitations
              /\ resp' = Quiet
              /\ reqs' = [reqs EXCEPT ![r] =
                            ("expiresAt" :> now + InvitationLifetime)
                              @@ [q EXCEPT !.pc = "commit"]]
  /\ UNCHANGED <<orgs, memberships, invitations, now>>
  /\ UNCHANGED <<authVars, tests>>

\* Invitation.create and session.commitTransaction() of inviteMember: the
\* collection has no unique index, so the insert is never rejected
HandleInviteMemberCommit(r) ==
  /\ reqs[r].pc = "commit"
  /\ reqs[r].route = "inviteMember"
  /\ LET q == reqs[r]
         id == FreshId(invitations)
     IN  /\ invitations' = invitations \cup
              {[_id |-> id, email |-> toLowerCase(q.body.email), orgId |-> q.org._id,
                role |-> q.body.role, token |-> InvitationToken(id),
                invitedBy |-> q.userId, expiresAt |-> q.expiresAt,
                status |-> "pending", deletedAt |-> Null]}
         /\ resp' = [userId |-> q.userId, orgSlug |-> q.orgSlug,
                     role |-> ResolvedRole(q), stage |-> "handler",
                     code |-> "OK", message |-> "Invitation sent successfully"]
         /\ reqs' = [reqs EXCEPT ![r] = IdleReq]
  /\ UNCHANGED <<orgs, memberships, now>>
  /\ UNCHANGED <<authVars, tests>>

\* DELETE /:orgSlug/invitations/:invitationId: org.controller cancelInvitation
HandleCancelInvitation(r) ==
  /\ reqs[r].pc = "handler"
  /\ reqs[r].route = "cancelInvitation"
  /\ LET q == reqs[r]
         org == getOrganizationBySlug(q.orgSlug)
     IN  IF org = None
           THEN /\ Respond(r, q, "NOT_FOUND", "Organization not found")
                /\ UNCHANGED invitations
         ELSE IF Cancellable(q.body.invitationId, org._id) = {}
           THEN /\ Respond(r, q, "NOT_FOUND", "Invitation not found")
                /\ UNCHANGED invitations
         ELSE /\ invitations' = cancelInvitation(q.body.invitationId, org._id)
              /\ Respond(r, q, "OK", "Invitation cancelled successfully")
  /\ UNCHANGED <<orgs, memberships, now>>
  /\ UNCHANGED <<authVars, tests>>

\* GET /:orgSlug/invitations: org.controller getOrganizationInvitations
HandleGetOrganizationInvitations(r) ==
  /\ reqs[r].pc = "handler"
  /\ reqs[r].route = "getOrganizationInvitations"
  /\ LET q == reqs[r]
         org == getOrganizationBySlug(q.orgSlug)
     IN  IF org = None
           THEN Respond(r, q, "NOT_FOUND", "Organization not found")
           ELSE RespondData(r, q, Absent, getOrganizationInvitations(org._id))
  /\ UNCHANGED <<orgs, memberships, invitations, now>>
  /\ UNCHANGED <<authVars, tests>>

\* POST /api/orgs/accept-invitation: org.controller acceptInvitation and the
\* reads of the org.service acceptInvitation transaction
AcceptInvitationBegin(r, userId, token, overlap) ==
  /\ reqs[r].pc = "idle"
  /\ \A q \in 1..(r - 1) : reqs[q].pc # "idle"
  /\ MayStart(overlap)
  /\ LET body == [token |-> token]
         invitation == getInvitationByToken(token)
         Fail(message) ==
           /\ Reply("acceptInvitation", userId, body, "INTERNAL_ERROR", message)
           /\ UNCHANGED reqs
     IN  IF invitation = None THEN Fail("Invitation not found")
         ELSE IF invitation.status # "pending" THEN Fail("Invitation is no longer valid")
         ELSE IF invitation.expiresAt < now THEN Fail("Invitation has expired")
         ELSE IF toLowerCase(EmailOf(userId)) # toLowerCase(invitation.email)
           THEN Fail("This invitation is for a different email address")
         ELSE IF getMembership(userId, invitation.orgId) # None
           THEN Fail("You are already a member of this organization")
         ELSE /\ resp' = Quiet
              /\ reqs' = [reqs EXCEPT ![r] =
                            [pc |-> "acceptInvitation", route |-> "acceptInvitation",
                             userId |-> userId, body |-> body,
                             invitation |-> invitation]]
  /\ UNCHANGED <<orgs, memberships, invitations, now>>
  /\ UNCHANGED <<authVars, tests>>

\* the text of the error a write throws when the document it updates was changed
\* after the transaction's snapshot
WriteConflictMessage == "WriteConflict"

\* Membership.create, Invitation.updateOne, the organization lookup and
\* session.commitTransaction() / abortTransaction() of acceptInvitation
AcceptInvitationCommit(r) ==
  /\ reqs[r].pc = "acceptInvitation"
  /\ LET q == reqs[r]
         invitation == q.invitation
         duplicate == ~MembershipIndexAllows(q.userId, invitation.orgId)
         conflict == invitation \notin invitations
         orgMissing == \A o \in orgs : ~(o._id = invitation.orgId /\ o.deletedAt = Null)
         failed == duplicate \/ conflict \/ orgMissing
     IN  /\ memberships' = Committed(memberships,
                {NewMembership(q.userId, invitation.orgId, invitation.role)}, failed)
         /\ invitations' = IF failed THEN invitations
                           ELSE (invitations \ {invitation}) \cup
                                  {[invitation EXCEPT !.status = "accepted"]}
         /\ IF duplicate
              THEN Reply("acceptInvitation", q.userId, q.body, "INTERNAL_ERROR",
                         "E11000 duplicate key error")
            ELSE IF conflict
              THEN Reply("acceptInvitation", q.userId, q.body, "INTERNAL_ERROR",
                         WriteConflictMessage)
            ELSE IF orgMissing
              THEN Reply("acceptInvitation", q.userId, q.body, "INTERNAL_ERROR",
                         "Organization not found")
            ELSE Reply("acceptInvitation", q.userId, q.body, "OK",
                       "Invitation accepted successfully")
         /\ reqs' = [reqs EXCEPT ![r] = IdleReq]
  /\ UNCHANGED <<orgs, now>>
  /\ UNCHANGED <<authVars, tests>>

\* time passes between two steps of the server
TimePasses ==
  /\ now < MaxTime
  /\ now' = now + 1
  /\ resp' = Quiet
  /\ UNCHANGED <<orgs, memberships, invitations, reqs, tests>>
  /\ UNCHANGED authVars

\* the organization acme as createOrganization by u1 left it
InitInvite ==
  /\ config = [refreshExpiry |-> RefreshExpiryDefault]
  /\ now = 0
  /\ users = [u \in Users |-> [status |-> "active"]]
  /\ refreshTokens = {}
  /\ tokenSeq = 0
  /\ issued = {}
  /\ rotations = {}
  /\ authOut = Quiet
  /\ refreshReqs = [r \in 1..MaxRefreshReqs |-> IdleRefresh]
  /\ orgs = {[_id |-> 1, slug |-> "acme", status |-> "active",
              createdBy |-> "u1", deletedAt |-> Null]}
  /\ memberships = {[_id |-> 1, userId |-> "u1", orgId |-> 1, role |-> "org_admin",
                     status |-> "active", deletedAt |-> Null]}
  /\ invitations = {}
  /\ reqs = [r \in 1..MaxInflight |-> IdleReq]
  /\ resp = Quiet
  /\ tests = {}

\* the steps every invitation run takes once its requests have arrived
InvitationSteps ==
  \/ \E r \in 1..MaxInflight : RequireRole(r)
  \/ \E r \in 1..MaxInflight : CanManageMember(r)
  \/ \E r \in 1..MaxInflight : PreventLastAdminModification(r)
  \/ \E r \in 1..MaxInflight : HandleInviteMemberBegin(r)
  \/ \E r \in 1..MaxInflight : HandleInviteMemberCommit(r)
  \/ \E r \in 1..MaxInflight : HandleCancelInvitation(r)
  \/ \E r \in 1..MaxInflight : HandleRemoveMember(r)
  \/ \E r \in 1..MaxInflight : AcceptInvitationCommit(r)

\* invitations over time, each request processed to completion before the next
\* starts: any user invites with any role, u1 cancels, lists and removes
NextInvite ==
  \/ \E r \in 1..MaxInflight, userId \in Users, role \in Roles, email \in Invitees :
       LoadOrgContext(r, "inviteMember", userId, "acme", 0,
                      [email |-> email, role |-> role], FALSE)
  \/ \E r \in 1..MaxInflight, id \in 1..MaxInvitations :
       LoadOrgContext(r, "cancelInvitation", "u1", "acme", 0,
                      [invitationId |-> id], FALSE)
  \/ \E r \in 1..MaxInflight :
       LoadOrgContext(r, "getOrganizationInvitations", "u1", "acme", 0,
                      [role |-> Absent], FALSE)
  \/ \E r \in 1..MaxInflight, memberId \in 2..3 :
       LoadOrgContext(r, "removeMember", "u1", "acme", memberId,
                      [role |-> Absent], FALSE)
  \/ \E r \in 1..MaxInflight, userId \in Users \ Creators :
       \E token \in {InvitationToken(id) : id \in 1..MaxInvitations} \cup {UnknownToken} :
         AcceptInvitationBegin(r, userId, token, FALSE)
  \/ \E r \in 1..MaxInflight : HandleGetOrganizationInvitations(r)
  \/ InvitationSteps
  \/ TimePasses

SpecInvite == InitInvite /\ [][NextInvite]_vars

\* the same routes with requests in flight together and the clock at rest:
\* invitations of u3 as a technician, u1 cancels, removes and promotes, u3 accepts
\* and creates an organization of their own
NextRace ==
  \/ \E r \in 1..MaxInflight, userId \in ConcUsers, email \in Outsiders :
       LoadOrgContext(r, "inviteMember", userId, "acme", 0,
                      [email |-> email, role |-> "technician"], TRUE)
  \/ \E r \in 1..MaxInflight, id \in 1..MaxInvitations :
       LoadOrgContext(r, "cancelInvitation", "u1", "acme", 0,
                      [invitationId |-> id], TRUE)
  \/ \E r \in 1..MaxInflight, memberId \in 2..3 :
       LoadOrgContext(r, "removeMember", "u1", "acme", memberId,
                      [role |-> Absent], TRUE)
  \/ \E r \in 1..MaxInflight, memberId \in 2..3 :
       LoadOrgContext(r, "updateMemberRole", "u1", "acme", memberId,
                      [role |-> "manager"], TRUE)
  \/ \E r \in 1..MaxInflight, userId \in Outsiders, id \in 1..MaxInvitations :
       AcceptInvitationBegin(r, userId, InvitationToken(id), TRUE)
  \/ \E r \in 1..MaxInflight, userId \in Outsiders :
       CreateOrganizationBegin(r, userId, "beta")
  \/ \E r \in 1..MaxInflight : CreateOrganizationCommit(r)
  \/ \E r \in 1..MaxInflight : HandleUpdateMemberRole(r)
  \/ InvitationSteps

SpecRace == InitInvite /\ [][NextRace]_vars

\* the life of an invitation, with requests in flight together and time passing:
\* invitations of u3, u1 cancels, u2 and u3 accept
NextLifecycle ==
  \/ \E r \in 1..MaxInflight, userId \in ConcUsers, email \in Outsiders :
       LoadOrgContext(r, "inviteMember", userId, "acme", 0,
                      [email |-> email, role |-> "technician"], TRUE)
  \/ \E r \in 1..MaxInflight, id \in 1..MaxInvitations :
       LoadOrgContext(r, "cancelInvitation", "u1", "acme", 0,
                      [invitationId |-> id], TRUE)
  \/ \E r \in 1..MaxInflight, userId \in Users \ Creators :
       \E token \in {InvitationToken(id) : id \in 1..MaxInvitations} \cup {UnknownToken} :
         AcceptInvitationBegin(r, userId, token, TRUE)
  \/ \E r \in 1..MaxInflight : RequireRole(r)
  \/ \E r \in 1..MaxInflight : HandleInviteMemberBegin(r)
  \/ \E r \in 1..MaxInflight : HandleInviteMemberCommit(r)
  \/ \E r \in 1..MaxInflight : HandleCancelInvitation(r)
  \/ \E r \in 1..MaxInflight : AcceptInvitationCommit(r)
  \/ TimePasses

SpecLifecycle == InitInvite /\ [][NextLifecycle]_vars

\* an organization whose status its admins change: every status the schema
\* admits is asked for, and members and others keep sending requests of the other
\* routes, one request at a time
NextStatus ==
  \/ \E r \in 1..MaxInflight, userId \in ConcUsers, status \in OrgStatuses :
       LoadOrgContext(r, "updateOrganization", userId, "acme", 0,
                      [status |-> status], FALSE)
  \/ \E r \in 1..MaxInflight, route \in {"getTests", "inviteMember"} \cup MemberRoutes :
       \E userId \in Users, orgSlug \in Slugs :
         \E memberId \in MemberIds(route), body \in Bodies(route) :
           LoadOrgContext(r, route, userId, orgSlug, memberId, body, FALSE)
  \/ \E userId \in Users, id \in 1..MaxInvitations :
       AcceptInvitation(userId, InvitationToken(id))
  \/ \E r \in 1..MaxInflight : RequireRole(r)
  \/ \E r \in 1..MaxInflight : CanManageMember(r)
  \/ \E r \in 1..MaxInflight : PreventLastAdminModification(r)
  \/ \E r \in 1..MaxInflight : HandleUpdateOrganization(r)
  \/ \E r \in 1..MaxInflight : HandleGetTests(r)
  \/ \E r \in 1..MaxInflight : HandleInviteMember(r)
  \/ \E r \in 1..MaxInflight : HandleUpdateMemberRole(r)
  \/ \E r \in 1..MaxInflight : HandleRemoveMember(r)

SpecStatus == InitConc /\ [][NextStatus]_vars

(***************************************************************************)
(* Token lifecycle properties                                              *)
(***************************************************************************)
\* the raw tokens for which a refreshAccessToken call has succeeded
Rotated == {p[1] : p \in rotations}

\* C1 as stated: a refreshAccessToken(T) call made after a refreshAccessToken(T)
\* call succeeded always throws 'Refresh token not found'.
C1_LateRefreshNotFound ==
  (authOut.op = "refresh" /\ authOut.late) =>
     authOut.outcome = "Refresh token not found"

\* C1 amended: a refreshAccessToken(T) call made after a refreshAccessToken(T)
\* call succeeded never gets past the lookup and returns no token pair; it throws
\* 'Refresh token not found' while the expiry signed into T has not passed and
\* 'Invalid refresh token' once it has.
C1_RotationSingleUse ==
  /\ \A r \in 1..MaxRefreshReqs : refreshReqs[r].pc # "idle" => ~refreshReqs[r].late
  /\ (authOut.op = "refresh" /\ authOut.late) =>
        /\ authOut.newToken = None
        /\ authOut.outcome = IF now < authOut.token.exp
                               THEN "Refresh token not found"
                               ELSE "Invalid refresh token"

\* a second refresh with an already rotated, still unexpired token was refused
C1_Witness ==
  /\ authOut.op = "refresh"
  /\ authOut.late
  /\ authOut.token \in Rotated
  /\ authOut.outcome = "Refresh token not found"

\* C2: one presented refresh token never yields two successor sessions, also
\* when two refreshAccessToken calls presenting it interleave their store steps.
C2_AtMostOneSuccessor ==
  \A p \in rotations : \A q \in rotations : p[1] = q[1] => p[2] = q[2]

\* C3: every RefreshToken row holds the SHA-256 hash of a raw refresh token that
\* was returned to a client, never a raw token, and a row found for a presented
\* token is the row holding that token's hash.
C3_OnlyHashesStored ==
  /\ \A row \in refreshTokens :
        /\ row.token \in {Sha256(t) : t \in issued}
        /\ row.token \notin issued
        /\ row.token.kind # "jwt"
  /\ \A r \in 1..MaxRefreshReqs :
        refreshReqs[r].pc # "idle" =>
          refreshReqs[r].stored.token = Sha256(refreshReqs[r].token)

\* a row is stored, a refresh call has found a row by the hash of its token,
\* and a rotation has replaced a row
C3_Witness ==
  /\ refreshTokens # {}
  /\ rotations # {}
  /\ \E r \in 1..MaxRefreshReqs : refreshReqs[r].pc = "getUser"

(***************************************************************************)
(* Organization-scoped authorization properties                            *)
(***************************************************************************)
\* the non-deleted, active org_admin memberships of an organization
ActiveAdmins(orgId) ==
  {x \in memberships : /\ x.orgId = orgId
                       /\ x.role = "org_admin"
                       /\ x.status = "active"
                       /\ x.deletedAt = Null}

\* has the user a non-deleted, active membership in the organization
IsActiveMember(userId, orgId) ==
  \E x \in memberships : /\ x.userId = userId
                         /\ x.orgId = orgId
                         /\ x.status = "active"
                         /\ x.deletedAt = Null

\* the non-deleted organizations a slug names
OrgsOfSlug(slug) == {o \in orgs : o.slug = slug /\ o.deletedAt = Null}

\* request slot r takes a step
Steps(r) == reqs'[r] # reqs[r]

LastAdminMessage == "Cannot remove or demote the last organization admin"
NotAMemberMessage == "You do not have access to this organization"
OrgInactiveMessage == "Organization is not active"

\* C4: with every request processed to completion before the next starts, every
\* organization keeps at least one non-deleted, active org_admin membership.
C4_LastAdminSequential ==
  \A o \in orgs : ActiveAdmins(o._id) # {}

\* the creator of an organization has been demoted or removed, and the
\* organization retains exactly one admin
C4_Witness ==
  \E o \in orgs :
    /\ Cardinality(ActiveAdmins(o._id)) = 1
    /\ \E x \in memberships : /\ x.orgId = o._id
                              /\ x.userId = o.createdBy
                              /\ (x.role # "org_admin" \/ x.deletedAt # Null)

\* C5: with role-update and member-removal requests in flight together, no
\* organization is ever left with zero non-deleted, active org_admin memberships.
C5_LastAdminConcurrent ==
  \A o \in orgs :
    \E x \in memberships : x \in ActiveAdmins(o._id)

\* the request in slot r is an org_admin's demotion or removal of their own
\* membership, past canManageMember
SelfDemotion(q) ==
  /\ q.membership.role = "org_admin"
  /\ q.targetMembership # None
  /\ q.targetMembership._id = q.membership._id
  /\ (q.route = "removeMember" \/ q.body.role \in {"manager", "technician"})

C6_Step(r) ==
  LET q == reqs[r]
  IN  /\ (q.pc = "preventLastAdminModification" /\ SelfDemotion(q) /\ Steps(r)) =>
           /\ memberships' = memberships
           /\ IF Cardinality(ActiveAdmins(q.org._id)) = 1
                THEN /\ reqs'[r] = IdleReq
                     /\ resp'.code = "BAD_REQUEST"
                     /\ resp'.message = LastAdminMessage
                ELSE /\ reqs'[r].pc = "handler"
      /\ (q.pc = "handler" /\ q.route \in MemberRoutes /\ SelfDemotion(q) /\ Steps(r)) =>
           /\ resp'.code = "OK"
           /\ Cardinality(ActiveAdmins(q.org._id)) >= 2
           /\ \E x \in memberships' :
                /\ x._id = q.membership._id
                /\ IF q.route = "removeMember"
                     THEN x.deletedAt = Deleted
                     ELSE x.role = q.body.role /\ x.deletedAt = Null

\* C6: an org_admin's request to demote or remove their own membership is refused
\* with the last-admin error, the memberships unchanged, when the organization has
\* exactly one active org_admin membership; when it has a second one the request
\* reaches the handler and the handler demotes or removes the membership.
C6_SelfDemotionGuard ==
  [][\A r \in 1..MaxInflight : C6_Step(r)]_vars

\* the sole admin of an organization with other members was refused
C6_Witness ==
  /\ resp # Quiet
  /\ resp.stage = "preventLastAdminModification"
  /\ resp.code = "BAD_REQUEST"
  /\ resp.message = LastAdminMessage
  /\ \E o \in OrgsOfSlug(resp.orgSlug) :
       /\ Cardinality(ActiveAdmins(o._id)) = 1
       /\ \E x \in memberships : x.orgId = o._id /\ x.userId # resp.userId

\* the (caller role, target role) pairs with authority over the target
AuthorityMatrix ==
  {<<"org_admin", t>> : t \in Roles} \cup {<<"manager", "technician">>}

C7_Step(r) ==
  LET q == reqs[r]
  IN  (q.pc = "canManageMember" /\ Steps(r)) =>
        \A t \in memberships :
          (t._id = q.memberId /\ t.orgId = q.org._id /\ t.deletedAt = Null) =>
             IF <<q.membership.role, t.role>> \in AuthorityMatrix
               THEN /\ reqs'[r].pc = "preventLastAdminModification"
                    /\ resp' = Quiet
               ELSE /\ reqs'[r] = IdleReq
                    /\ resp'.stage = "canManageMember"
                    /\ resp'.code = "FORBIDDEN"
                    /\ memberships' = memberships

\* C7: on a role-update or removal request that targets a membership of the
\* caller's organization, canManageMember passes an org_admin for any target and
\* a manager for a technician target only; in every other combination it
\* responds forbidden, the request ends there and the memberships are unchanged.
C7_AuthorityOverTarget ==
  [][\A r \in 1..MaxInflight : C7_Step(r)]_vars

\* a manager was refused authority over a target
C7_Witness ==
  /\ resp # Quiet
  /\ resp.stage = "canManageMember"
  /\ resp.code = "FORBIDDEN"
  /\ resp.role = "manager"

\* C8: the handler of a role-update request whose caller is a manager never
\* gives a membership the role org_admin.
C8_ManagerNeverMakesAdmin ==
  [][\A r \in 1..MaxInflight :
       (/\ reqs[r].pc = "handler"
        /\ reqs[r].route = "updateMemberRole"
        /\ reqs[r].membership.role = "manager"
        /\ Steps(r)) =>
          \A x \in memberships' : x.role = "org_admin" => x \in memberships]_vars

\* the fixed total order org_admin(3) > manager(2) > technician(1)
Ordinal(role) == CASE role = "org_admin" -> 3
                   [] role = "manager" -> 2
                   [] role = "technician" -> 1

C9_Step(r) ==
  LET q == reqs[r]
  IN  (q.pc = "requireRole" /\ Steps(r)) =>
        IF Ordinal(q.membership.role) >= Ordinal(RequiredRole(q.route))
          THEN /\ reqs'[r].pc = "handler"
               /\ resp' = Quiet
          ELSE /\ reqs'[r] = IdleReq
               /\ resp'.stage = "requireRole"
               /\ resp'.code = "FORBIDDEN"
               /\ UNCHANGED <<orgs, memberships, invitations>>

\* C9: hasRequiredRole (caller role, minimum role) holds exactly when the caller
\* role's ordinal is at least the minimum role's, for all nine pairs, and
\* requireRole lets a request on to the handler exactly in that case; otherwise it
\* responds forbidden and the request ends without reaching the handler.
C9_RequireRoleOrdinal ==
  [][/\ \A u \in Roles, m \in Roles :
          hasRequiredRole(u, m) <=> Ordinal(u) >= Ordinal(m)
     /\ \A r \in 1..MaxInflight : C9_Step(r)]_vars

\* a manager was refused on a route that requires org_admin
C9_Witness ==
  /\ resp # Quiet
  /\ resp.stage = "requireRole"
  /\ resp.code = "FORBIDDEN"
  /\ resp.role = "manager"
  /\ resp.message = "This action requires org_admin role or higher"

\* no request of a user without an active membership is past loadOrgContext,
\* and no role check has refused such a user
NonMemberStopsAtLoad ==
  /\ \A r \in DOMAIN reqs :
       reqs[r].pc # "idle" =>
         \E o \in OrgsOfSlug(reqs[r].orgSlug) : IsActiveMember(reqs[r].userId, o._id)
  /\ (resp # Quiet /\ resp.stage \in {"requireRole", "canManageMember"}) =>
       \E o \in OrgsOfSlug(resp.orgSlug) : IsActiveMember(resp.userId, o._id)

\* the response loadOrgContext gave a user without an active membership in an
\* existing organization
\* existing organization: the not-a-member denial, or, when the organization is
\* not active, whenInactive
DeniedAtLoad(whenInactive) ==
  (resp # Quiet /\ resp.stage = "loadOrgContext") =>
     \A o \in OrgsOfSlug(resp.orgSlug) :
       ~IsActiveMember(resp.userId, o._id) =>
          /\ resp.code = "FORBIDDEN"
          /\ resp.message = IF o.status = "active" THEN NotAMemberMessage
                                                    ELSE whenInactive

\* C10 as stated: a request for an existing organization by a user without an
\* active membership in it ends at loadOrgContext with the not-a-member denial.
C10_NonMemberNotAMember ==
  NonMemberStopsAtLoad /\ DeniedAtLoad(NotAMemberMessage)

\* C10 amended: a request for an existing organization by a user without an
\* active membership in it ends at loadOrgContext, never reaching requireRole,
\* canManageMember or the handler, with the not-a-member denial when the
\* organization is active and with the organization-not-active denial otherwise.
C10_NonMemberDeniedAtLoad ==
  NonMemberStopsAtLoad /\ DeniedAtLoad(OrgInactiveMessage)

\* a removed member of an active organization was denied at loadOrgContext
C10_Witness ==
  /\ resp # Quiet
  /\ resp.stage = "loadOrgContext"
  /\ resp.message = NotAMemberMessage
  /\ \E o \in OrgsOfSlug(resp.orgSlug) :
       /\ o.status = "active"
       /\ \E x \in memberships : /\ x.userId = resp.userId
                                 /\ x.orgId = o._id
                                 /\ x.deletedAt = Deleted

OrgNotFoundMessage == "Organization not found"

\* C11: loadOrgContext answers in the order organization-exists,
\* organization-active, caller-is-member: a request it refuses gets NOT_FOUND
\* exactly when no organization has the slug, FORBIDDEN 'not active' for an
\* existing organization that is not active whoever the caller is, and FORBIDDEN
\* 'no access' for an active one the caller has no membership in; so a caller
\* without membership tells an existing slug from a non-existing one.
C11_ExistenceRevealed ==
  (resp # Quiet /\ resp.stage = "loadOrgContext") =>
     /\ (OrgsOfSlug(resp.orgSlug) = {}) <=> (resp.code = "NOT_FOUND")
     /\ OrgsOfSlug(resp.orgSlug) = {} => resp.message = OrgNotFoundMessage
     /\ \A o \in OrgsOfSlug(resp.orgSlug) :
          /\ resp.code = "FORBIDDEN"
          /\ resp.message # OrgNotFoundMessage
          /\ IF o.status # "active"
               THEN resp.message = OrgInactiveMessage
               ELSE /\ resp.message = NotAMemberMessage
                    /\ ~IsActiveMember(resp.userId, o._id)

\* a user with no membership was told that a slug names no organization, while
\* another slug names one
C11_Witness ==
  /\ resp # Quiet
  /\ resp.stage = "loadOrgContext"
  /\ resp.code = "NOT_FOUND"
  /\ orgs # {}
  /\ \A x \in memberships : x.userId # resp.userId

(***************************************************************************)
(* authenticate                                                            *)
(***************************************************************************)
NoTokenMessage == "No access token provided"
BadTokenMessage == "Invalid or expired access token"

\* the header carries an access token signed with the access secret whose
\* expiry lies after t
HeaderAcceptable(h, t) ==
  /\ h.scheme = "Bearer"
  /\ h.token.kind = "jwt"
  /\ h.token.sig = AccessSecret
  /\ h.token.exp > t

AllIdle == \A r \in 1..MaxInflight : reqs[r].pc = "idle"

C12_Step ==
  AllIdle =>
    \/ /\ resp' # Quiet
       /\ resp'.stage = "authenticate"
       /\ resp'.code = "UNAUTHORIZED"
       /\ resp'.userId = Absent
       /\ ~HeaderAcceptable(resp'.header, now)
       /\ resp'.message = IF resp'.header.scheme = "Bearer" THEN BadTokenMessage
                                                            ELSE NoTokenMessage
       /\ reqs' = reqs
    \/ /\ resp' = Quiet
       /\ \E r \in 1..MaxInflight :
            /\ reqs'[r].pc = "loadOrgContext"
            /\ HeaderAcceptable(reqs'[r].header, now)
            /\ reqs'[r].userId = reqs'[r].header.token.userId
            /\ \A q \in 1..MaxInflight \ {r} : reqs'[q] = reqs[q]

\* C12: authenticate answers a request whose Authorization header is missing,
\* is not a Bearer header, or carries a token with a bad signature or a passed
\* expiry with UNAUTHORIZED (401) and does not call next (no request enters the
\* pipeline); every other request gets the token's userId attached and moves
\* on by exactly one stage with no response sent; never both.
C12_AuthenticateShortCircuits == [][C12_Step]_vars

\* an access token of the right key presented after its expiry was turned away
C12_Witness ==
  /\ resp # Quiet
  /\ resp.stage = "authenticate"
  /\ resp.message = BadTokenMessage
  /\ resp.header.token.kind = "jwt"
  /\ resp.header.token.sig = AccessSecret
  /\ resp.header.token.exp <= now

(***************************************************************************)
(* The authorization pipeline                                              *)
(***************************************************************************)
\* the guards a route declares after authenticate, in the order declared
GuardsOf(route) ==
  IF route \in {"updateMemberRole", "removeMember"}
    THEN <<"loadOrgContext", "canManageMember", "preventLastAdminModification">>
    ELSE <<"loadOrgContext", "requireRole">>

\* position of a stage in its route's chain; the handler comes last
StageIndex(route, pc) ==
  IF pc = "handler" THEN Len(GuardsOf(route)) + 1
  ELSE CHOOSE k \in 1..Len(GuardsOf(route)) : GuardsOf(route)[k] = pc

\* 0 Unauthenticated, 1 Authenticated, 2 OrgScoped, 3 RoleResolved, 4 Authorized
StatusRank(q) ==
  CASE q.pc = "idle" -> 0
    [] q.pc = "loadOrgContext" -> 1
    [] q.pc = "handler" -> 4
    [] OTHER -> IF q.org = None THEN 1 ELSE IF q.membership = None THEN 2 ELSE 3

DeniedBy(r) ==
  /\ reqs[r].pc = "idle"
  /\ resp # Quiet
  /\ resp.stage # "handler"
  /\ resp.code # "OK"

C13_Step(r) ==
  reqs'[r] # reqs[r] =>
    IF reqs[r].pc = "idle"
      THEN reqs'[r].pc = "loadOrgContext" /\ resp' = Quiet
    ELSE IF reqs'[r].pc = "idle"
      THEN /\ resp' # Quiet
           /\ resp'.stage = reqs[r].pc
           /\ reqs[r].pc # "handler" => resp'.code # "OK"
    ELSE /\ resp' = Quiet
         /\ reqs'[r].route = reqs[r].route
         /\ reqs'[r].userId = reqs[r].userId
         /\ StageIndex(reqs[r].route, reqs'[r].pc) = StageIndex(reqs[r].route, reqs[r].pc) + 1
         /\ StatusRank(reqs'[r]) >= StatusRank(reqs[r])
         /\ StatusRank(reqs'[r]) >= 3

\* C13: a request only moves forward, one stage of its route's chain at a time
\* (Authenticated, then org and role resolved, then Authorized at the handler);
\* a stage that sends a response ends the request, so no later stage and no
\* handler runs after a denial; the handler is entered only from the last
\* guard the route declares; and every request that entered the pipeline
\* eventually reaches its handler or is denied.
C13_PipelineForwardAndTerminates ==
  /\ [][\A r \in 1..MaxInflight : C13_Step(r)]_vars
  /\ \A r \in 1..MaxInflight :
       (reqs[r].pc # "idle") ~> (reqs[r].pc = "handler" \/ DeniedBy(r))

\* a member route's request reached its handler past all three guards
C13_Witness ==
  \E r \in 1..MaxInflight :
    /\ reqs[r].pc = "handler"
    /\ reqs[r].route = "updateMemberRole"
    /\ reqs[r].targetMembership # None
    /\ reqs[r].header.scheme = "Bearer"

(***************************************************************************)
(* Login                                                                   *)
(***************************************************************************)
LoginSucceeds ==
  /\ authOut' # authOut
  /\ authOut' # Quiet
  /\ authOut'.op = "login"
  /\ authOut'.outcome = "ok"

C14_Step ==
  LoginSucceeds =>
    /\ authOut'.subject \in Users
    /\ users[authOut'.subject].status = "active"
    /\ verifyAccessToken(authOut'.accessToken, now')
    /\ authOut'.accessToken.userId = authOut'.subject
    /\ \E row \in refreshTokens' \ refreshTokens :
         /\ row.token = Sha256(authOut'.newToken)
         /\ row.userId = authOut'.subject
         /\ refreshTokens' = refreshTokens \cup {row}
         /\ \A old \in refreshTokens : old.token # row.token

UniqueHashes ==
  \A a, b \in refreshTokens : a.token = b.token => a = b

\* C14: a successful loginUser (valid credentials, active user) returns an
\* access token verifyAccessToken accepts for that user's id and a refresh
\* token whose hash is the token of one newly inserted RefreshToken row; and
\* no two RefreshToken rows ever hold the same hash.
C14_LoginIssuesVerifiablePair == [][C14_Step]_vars /\ []UniqueHashes

\* a second login of the same user returned a pair while the first row is kept
C14_Witness ==
  /\ authOut # Quiet
  /\ authOut.op = "login"
  /\ authOut.outcome = "ok"
  /\ \E a, b \in refreshTokens :
       /\ a # b
       /\ a.userId = authOut.subject
       /\ b.userId = authOut.subject
       /\ b.token = Sha256(authOut.newToken)

(***************************************************************************)
(* Only active users authenticate                                          *)
(***************************************************************************)
IsActiveUser(userId) == userId \in Users /\ users[userId].status = "active"

C15_Step ==
  /\ \A row \in refreshTokens' \ refreshTokens : IsActiveUser(row.userId)
  /\ (authOut' # Quiet /\ authOut'.op \in {"login", "refresh"}
        /\ (authOut'.outcome = "ok" \/ authOut'.newToken # None))
       => IsActiveUser(authOut'.subject)

\* C15: loginUser and refreshAccessToken return a token pair and insert a
\* RefreshToken row only for a user who exists and whose status is active,
\* whatever credentials or refresh token are presented.
C15_OnlyActiveUsersAuthenticate == [][C15_Step]_vars

\* the stored, unexpired refresh token of a suspended account was presented
\* and refused
C15_Witness ==
  /\ authOut # Quiet
  /\ authOut.op = "refresh"
  /\ authOut.outcome = "User not found or inactive"
  /\ users[authOut.subject].status = "suspended"
  /\ \E row \in refreshTokens : row.token = Sha256(authOut.token)

(***************************************************************************)
(* Logout                                                                  *)
(***************************************************************************)
LoggedOut(out) == out # Quiet /\ out.op = "logout"

\* a refreshAccessToken call that directly followed logoutUser of its token
RefreshAfterLogout == authOut # Quiet /\ authOut.op = "refresh" /\ authOut.revoked

C16_LogoutStep ==
  LoggedOut(authOut') =>
    /\ authOut'.outcome = "ok"
    /\ refreshTokens' = {row \in refreshTokens : row.token # Sha256(authOut'.token)}
    /\ (\A row \in refreshTokens : row.token # Sha256(authOut'.token))
          => refreshTokens' = refreshTokens

\* no row is ever inserted for the hash of a token issued before
C16_NeverReinserted ==
  \A row \in refreshTokens' \ refreshTokens :
     \A t \in issued : row.token # Sha256(t)

\* C16 as stated: refreshAccessToken(T) called after logoutUser(T), T a token
\* the service issued, always fails with 'Refresh token not found'.
C16_RefreshAfterLogoutNotFound ==
  (RefreshAfterLogout /\ authOut.token \in issued) =>
     authOut.outcome = "Refresh token not found"

\* C16 amended: logoutUser(T) raises no error, removes exactly the rows holding
\* the hash of T (none when T is not stored, so a repeated logout changes
\* nothing) and no other row; the hash of T is never stored again; and a
\* refreshAccessToken(T) that follows never gets past the lookup and returns no
\* pair: it throws 'Refresh token not found' when T carries the service's
\* signature and the expiry signed into T has not passed, and 'Invalid refresh
\* token' otherwise.
C16_RevocationFinal ==
  /\ [][C16_LogoutStep /\ C16_NeverReinserted]_vars
  /\ [](\A r \in 1..MaxRefreshReqs : refreshReqs[r].pc # "idle" => ~refreshReqs[r].revoked)
  /\ [](LoggedOut(authOut) =>
          \A row \in refreshTokens : row.token # Sha256(authOut.token))
  /\ [](RefreshAfterLogout =>
          /\ authOut.newToken = None
          /\ authOut.outcome =
                IF authOut.token.sig = RefreshSecret /\ now < authOut.token.exp
                  THEN "Refresh token not found"
                  ELSE "Invalid refresh token")

\* a token that was issued and is unexpired was refused straight after its
\* logout, while another session's row is still stored
C16_Witness ==
  /\ RefreshAfterLogout
  /\ authOut.token \in issued
  /\ authOut.outcome = "Refresh token not found"
  /\ \E row \in refreshTokens : row.userId = authOut.subject

(***************************************************************************)
(* Stored expiry                                                           *)
(***************************************************************************)
\* the rows stored for a raw token whose expiresAt has passed
StaleRowsOf(raw) ==
  {row \in refreshTokens : row.token = Sha256(raw) /\ row.expiresAt < now}

\* C17: once refreshAccessToken has returned for a presented token, the store
\* holds no row of that token whose stored expiresAt has passed: presenting the
\* token after its row's expiresAt deletes the stale row.
C17_StaleRowDeleted ==
  (authOut # Quiet /\ authOut.op = "refresh") =>
     StaleRowsOf(authOut.token) = {}

\* C18: the expiresAt stored with a refresh token's row is the expiry signed
\* into the token: the time of issue plus the configured refresh validity.
C18_StoredExpiryIsSignedExpiry ==
  \A t \in issued : \A row \in refreshTokens :
     row.token = Sha256(t) => row.expiresAt = t.exp

(***************************************************************************)
(* Creating an organization                                                *)
(***************************************************************************)
CreateReplied == resp' # Quiet /\ resp'.stage = "createOrganization"

\* the organizations a step makes visible
CreatedOrgs == {o \in orgs' : \A p \in orgs : p._id # o._id}

C19_Step ==
  /\ \A o \in CreatedOrgs :
       /\ CreateReplied /\ resp'.code = "OK" /\ resp'.userId = o.createdBy
       /\ \E m \in memberships' \ memberships :
            /\ m.orgId = o._id
            /\ m.userId = o.createdBy
            /\ m.role = "org_admin"
            /\ m.status = "active"
            /\ m.deletedAt = Null
            /\ memberships' = memberships \cup {m}
  /\ (CreateReplied /\ resp'.code # "OK") =>
       /\ orgs' = orgs
       /\ memberships' = memberships
  /\ (CreateReplied /\ resp'.code = "OK" /\ resp' # resp) => CreatedOrgs # {}

\* C19: a step that makes an organization visible makes its creator's
\* membership (org_admin, active) visible in the same step; a createOrganization
\* call that fails, at the organization insert or at the membership insert,
\* leaves organizations and memberships as they were; so every organization in
\* the store has its creator's membership row.
C19_CreateAllOrNothing ==
  /\ [][C19_Step]_vars
  /\ [](\A o \in orgs : \E m \in memberships :
          m.orgId = o._id /\ m.userId = o.createdBy)

\* the store rejected an insert of the transaction and nothing of it is visible
C19_Witness ==
  /\ resp # Quiet
  /\ resp.stage = "createOrganization"
  /\ resp.message = StoreErrorMessage
  /\ orgs = {}
  /\ memberships = {}

\* C20: a create-organization request that gives no slug succeeds (the store
\* accepting the writes): an organization created by the caller is in the store
\* and the caller holds an active org_admin membership of it.
C20_NoSlugCreatesOrganization ==
  (/\ resp # Quiet
   /\ resp.stage = "createOrganization"
   /\ resp.body.slug = Absent
   /\ resp.message # StoreErrorMessage) =>
     /\ resp.code = "OK"
     /\ \E o \in orgs :
          /\ o.createdBy = resp.userId
          /\ o.slug \in Slugs
          /\ \E m \in memberships :
               /\ m.orgId = o._id
               /\ m.userId = resp.userId
               /\ m.role = "org_admin"
               /\ m.status = "active"

(***************************************************************************)
(* Slug uniqueness                                                         *)
(***************************************************************************)
UniqueSlugs == \A a, b \in orgs : a.slug = b.slug => a = b

C21_Step ==
  CreateReplied =>
    /\ resp'.code # "OK" => (orgs' = orgs /\ memberships' = memberships)
    /\ (\E o \in orgs : o.slug = resp'.body.slug) => resp'.code # "OK"

\* C21: no two organizations ever have the same slug, also when
\* createOrganization calls for one slug overlap; a createOrganization call
\* whose slug is taken fails, and a call that fails leaves organizations and
\* memberships unchanged.
C21_SlugsUnique == []UniqueSlugs /\ [][C21_Step]_vars

\* of two overlapping calls for one slug, both past the slug check, the second
\* to insert was refused by the index
C21_Witness ==
  /\ resp # Quiet
  /\ resp.stage = "createOrganization"
  /\ resp.message = "E11000 duplicate key error"
  /\ \E o \in orgs : o.slug = resp.body.slug /\ o.createdBy # resp.userId

(***************************************************************************)
(* Tenant isolation                                                        *)
(***************************************************************************)
\* the ids of the organizations a slug names
OrgIdsOfSlug(slug) == {o._id : o \in OrgsOfSlug(slug)}

\* the request names a membership, or a test, of an organization other than
\* the one its slug names
NamesForeignRecord(q) ==
  \/ /\ q.route \in {"updateMemberRole", "removeMember"}
     /\ \E m \in memberships : m._id = q.memberId /\ m.orgId \notin OrgIdsOfSlug(q.orgSlug)
  \/ /\ q.route \in {"getTestById", "updateTest", "deleteTest"}
     /\ \E t \in tests : t._id = q.testId /\ t.orgId \notin OrgIdsOfSlug(q.orgSlug)

\* the stage of a route that looks the named record up
LookupStage(route) ==
  IF route \in {"updateMemberRole", "removeMember"} THEN "canManageMember" ELSE "handler"

C22_Step(r) ==
  (reqs[r].pc # "idle" /\ reqs'[r] # reqs[r]) =>
    LET q == reqs[r]
        own == OrgIdsOfSlug(q.orgSlug)
    IN  /\ \A m \in memberships : m \notin memberships' => m.orgId \in own
        /\ \A m \in memberships' : m \notin memberships => m.orgId \in own
        /\ \A t \in tests : t \notin tests' => t.orgId \in own
        /\ \A t \in tests' : t \notin tests => t.orgId \in own
        /\ (resp' # Quiet /\ "data" \in DOMAIN resp') =>
              \A t \in resp'.data : t.orgId \in own
        /\ NamesForeignRecord(q) =>
              /\ memberships' = memberships
              /\ tests' = tests
              /\ resp' # Quiet => resp'.code # "OK"
              /\ q.pc = LookupStage(q.route) =>
                    resp' # Quiet /\ resp'.code = "NOT_FOUND"

\* C22: a request issued through an organization's slug returns and mutates
\* only tests and memberships whose orgId is that organization's id; a request
\* that names a test or a membership of another organization changes nothing,
\* is never answered with success, and is answered not-found by the stage that
\* looks the record up.
C22_TenantIsolation == [][\A r \in 1..MaxInflight : C22_Step(r)]_vars

\* a manager of one organization asked, through its slug, to update the other
\* organization's test and got not-found
C22_Witness ==
  /\ resp # Quiet
  /\ resp.stage = "handler"
  /\ resp.message = "Test not found"
  /\ resp.role = "org_admin"
  /\ \A t \in tests : t.deletedAt = Null /\ t.title # "renamed"


(***************************************************************************)
(* Invitation and membership properties                                     *)
(***************************************************************************)
\* the non-deleted active memberships of a user in an organization
LiveMemberships(userId, orgId) ==
  {m \in memberships : /\ m.userId = userId
                       /\ m.orgId = orgId
                       /\ m.status = "active"
                       /\ m.deletedAt = Null}

\* C23: in every reachable state a user has at most one non-deleted active
\* membership in an organization, whatever the interleaving of createOrganization,
\* acceptInvitation (two acceptances by one user for one organization included),
\* role updates and removals
C23_OneMembershipPerUserAndOrg ==
  \A u \in Users : \A o \in orgs : Cardinality(LiveMemberships(u, o._id)) <= 1

\* a second acceptance by a user who read "not a member" is rejected at its insert,
\* the user's membership from the first acceptance being in place
C23_Witness ==
  /\ resp # Quiet
  /\ resp.stage = "acceptInvitation"
  /\ resp.message = "E11000 duplicate key error"
  /\ \E o \in orgs : Cardinality(LiveMemberships(resp.userId, o._id)) = 1
  /\ \E m \in memberships : m.orgId # 1
  /\ \E m \in memberships : m.role = "manager" /\ m.userId = resp.userId

\* the rows of a collection that a step inserted
Inserted(before, after) == {x \in after : \A y \in before : y._id # x._id}

\* the invitation status of every invitation id
StatusOf(rows) == {<<i._id, i.status>> : i \in rows}

DifferentEmailMessage == "This invitation is for a different email address"

\* the non-deleted invitations carrying a token
InvitationsOfToken(token) == {i \in invitations : i.token = token /\ i.deletedAt = Null}

\* is the user a member of the organization: do they hold a non-deleted membership
IsMember(userId, orgId) ==
  \E m \in memberships : m.userId = userId /\ m.orgId = orgId /\ m.deletedAt = Null

\* a call of acceptInvitation that ends where it reads
AcceptFailsAtRead ==
  /\ resp' # Quiet
  /\ resp'.stage = "acceptInvitation"
  /\ reqs' = reqs

\* what an acceptInvitation call may do, step by step: a call that fails changes
\* neither collection; for a pending, unexpired invitation a caller with another
\* email gets the different-email error, and a caller with the invitation's
\* email who is not a member gets an active membership with the invitation's
\* role while the invitation becomes accepted
C24_Step ==
  /\ AcceptFailsAtRead =>
       /\ resp'.code # "OK"
       /\ memberships' = memberships
       /\ invitations' = invitations
       /\ \A i \in InvitationsOfToken(resp'.body.token) :
            (i.status = "pending" /\ ~(i.expiresAt < now)) =>
               IF toLowerCase(i.email) # toLowerCase(EmailOf(resp'.userId))
                 THEN resp'.message = DifferentEmailMessage
                 ELSE IsMember(resp'.userId, i.orgId)
  /\ \A r \in 1..MaxInflight :
       (reqs[r].pc = "acceptInvitation" /\ reqs'[r].pc = "idle") =>
          LET q == reqs[r]
              i == q.invitation
              created == Inserted(memberships, memberships')
          IN  /\ resp' # Quiet
              /\ resp'.code # "OK" =>
                   (memberships' = memberships /\ invitations' = invitations)
              /\ resp'.code = "OK" =>
                   /\ created = {m \in memberships' :
                                   /\ m.userId = q.userId
                                   /\ m.orgId = i.orgId
                                   /\ m.role = i.role
                                   /\ m.status = "active"
                                   /\ m.deletedAt = Null}
                   /\ Cardinality(created) = 1
                   /\ invitations' = (invitations \ {i}) \cup
                                       {[i EXCEPT !.status = "accepted"]}
              /\ (i \in invitations /\ ~IsMember(q.userId, i.orgId))
                   => resp'.code = "OK"

\* C24: acceptInvitation for a pending, unexpired invitation fails with the
\* different-email error when the caller's email differs (letter case aside)
\* from the invitation's; when it matches and the caller is not a member, it
\* creates an active membership with the invitation's role and sets the
\* invitation's status to accepted; every failing call creates no membership
\* and leaves the invitation's status unchanged
C24_AcceptInvitationOutcomes == [][C24_Step]_vars


\* the memberships a user got in an organization by accepting an invitation:
\* the rows, deleted or not, other than the creator's own
InvitedMemberships(userId, orgId) ==
  {m \in memberships : /\ m.userId = userId
                       /\ m.orgId = orgId
                       /\ \A o \in orgs : ~(o._id = orgId /\ o.createdBy = userId)}

\* the accepted invitations of an email address to an organization
AcceptedInvitations(email, orgId) ==
  {i \in invitations : i.email = email /\ i.orgId = orgId /\ i.status = "accepted"}

\* as many memberships came from invitations as invitations are accepted
C25_Inv ==
  \A u \in Users : \A o \in orgs :
    Cardinality(InvitedMemberships(u, o._id))
      = Cardinality(AcceptedInvitations(EmailOf(u), o._id))

\* is this step the commit of an acceptInvitation call for the token, by the user
\* with the email
AcceptCommits(token, email) ==
  \E r \in 1..MaxInflight : /\ reqs[r].pc = "acceptInvitation"
                            /\ reqs'[r].pc = "idle"
                            /\ reqs[r].body.token = token
                            /\ EmailOf(reqs[r].userId) = email

\* is this step the handler of a cancelInvitation request for the invitation
CancelHandles(invitationId) ==
  \E r \in 1..MaxInflight : /\ reqs[r].pc = "handler"
                            /\ reqs[r].route = "cancelInvitation"
                            /\ reqs'[r].pc = "idle"
                            /\ reqs[r].body.invitationId = invitationId

\* the invitations a step turns to a status
Turned(status) ==
  {i \in invitations : /\ i.status # status
                       /\ \E j \in invitations' : j._id = i._id /\ j.status = status}

C25_Step ==
  /\ \A i \in invitations : \E j \in invitations' :
       /\ j._id = i._id
       /\ \/ j.status = i.status
          \/ i.status = "pending" /\ j.status = "accepted" /\ AcceptCommits(i.token, i.email)
          \/ i.status = "pending" /\ j.status = "cancelled" /\ CancelHandles(i._id)
  /\ \A j \in Inserted(invitations, invitations') : j.status = "pending"
  /\ LET joined == {m \in Inserted(memberships, memberships') :
                      \A o \in Inserted(orgs, orgs') : o._id # m.orgId}
     IN  /\ Cardinality(joined) = Cardinality(Turned("accepted"))
         /\ Cardinality(joined) <= 1
         /\ \A m \in joined : \A i \in Turned("accepted") :
              /\ EmailOf(m.userId) = i.email
              /\ m.orgId = i.orgId
              /\ m.role = i.role

\* C25: an invitation's status changes only from pending to accepted, by
\* acceptInvitation, or from pending to cancelled, by cancelInvitation, and never
\* again afterwards; a membership comes from an invitation exactly when that
\* invitation is accepted, and an invitation yields at most one membership, also
\* when acceptInvitation calls for one token, or an acceptInvitation and a
\* cancelInvitation for one invitation, are interleaved
C25_InvitationLifecycle == []C25_Inv /\ [][C25_Step]_vars

\* an acceptInvitation call that read a pending invitation is aborted because the
\* invitation was cancelled before its writes: the invitation stays cancelled and
\* the caller has no membership
C25_Witness ==
  /\ resp # Quiet
  /\ resp.stage = "acceptInvitation"
  /\ resp.message = WriteConflictMessage
  /\ \E i \in invitations : i.token = resp.body.token /\ i.status = "cancelled"
  /\ \A m \in memberships : m.userId # resp.userId


\* the non-deleted pending invitations of an email address to an organization
PendingFor(email, orgId) ==
  {i \in invitations : /\ i.email = email
                       /\ i.orgId = orgId
                       /\ i.status = "pending"
                       /\ i.deletedAt = Null}

\* C26: in every reachable state an email address has at most one non-deleted
\* pending invitation to an organization, also when two inviteMember
\* transactions for the same email and organization run concurrently
C26_OnePendingPerEmailAndOrg ==
  \A i \in invitations : Cardinality(PendingFor(i.email, i.orgId)) <= 1


ExpiredMessage == "Invitation has expired"
AlreadyPendingMessage == "An invitation is already pending for this email"

\* the pending invitations whose expiresAt has passed
ExpiredPending == {i \in invitations : i.status = "pending" /\ i.expiresAt < now}

C27_Step ==
  \* an expired invitation stays pending unless cancelInvitation is applied to it,
  \* or an acceptInvitation call that read it before its expiry commits
  /\ \A i \in ExpiredPending : \E j \in invitations' :
       /\ j._id = i._id
       /\ \/ j.status = "pending"
          \/ j.status = "cancelled" /\ CancelHandles(i._id)
          \/ j.status = "accepted" /\ AcceptCommits(i.token, i.email)
  \* acceptInvitation for it goes no further than its reads, with the expired error
  /\ \A r \in 1..MaxInflight :
       (reqs[r].pc = "idle" /\ reqs'[r].pc = "acceptInvitation") =>
          reqs'[r].invitation \notin ExpiredPending
  /\ AcceptFailsAtRead =>
       \A i \in ExpiredPending :
          i.token = resp'.body.token => resp'.message = ExpiredMessage
  \* inviteMember for its email and organization is refused
  /\ \A r \in 1..MaxInflight :
       (/\ reqs[r].pc = "handler"
        /\ reqs[r].route = "inviteMember"
        /\ reqs'[r] # reqs[r]
        /\ \E i \in ExpiredPending : /\ i.email = toLowerCase(reqs[r].body.email)
                                     /\ i.orgId = reqs[r].org._id) =>
          /\ resp' # Quiet
          /\ resp'.code # "OK"
          /\ resp'.message = AlreadyPendingMessage
          /\ invitations' = invitations
  \* getOrganizationInvitations does not list it
  /\ \A r \in 1..MaxInflight :
       (/\ reqs[r].pc = "handler"
        /\ reqs[r].route = "getOrganizationInvitations"
        /\ reqs'[r] # reqs[r]) =>
          /\ resp' # Quiet
          /\ "data" \in DOMAIN resp'
          /\ resp'.data \cap ExpiredPending = {}

\* C27: an invitation whose expiresAt has passed keeps the status pending (no
\* operation sets the status expired); while it does, acceptInvitation for it
\* fails with the expired error, inviteMember for the same email and organization
\* fails with 'An invitation is already pending for this email' until
\* cancelInvitation is applied to it, and getOrganizationInvitations does not
\* list it
C27_ExpiredStaysPending ==
  /\ [](\A i \in invitations : i.status # "expired")
  /\ [][C27_Step]_vars

\* inviteMember is refused although every pending invitation has expired, while
\* an invitation that was cancelled is past its expiry too
C27_Witness ==
  /\ resp # Quiet
  /\ resp.stage = "handler"
  /\ resp.message = AlreadyPendingMessage
  /\ ExpiredPending # {}
  /\ \A i \in invitations : i.status = "pending" => i \in ExpiredPending
  /\ \E i \in invitations : i.status = "cancelled" /\ i.expiresAt < now


\* the roles a user holds in an organization
RolesHeld(userId, orgId) == {m.role : m \in LiveMemberships(userId, orgId)}

\* an invitation a step stores carries a role no higher than one its inviter
\* holds in the organization, and a membership a step creates from an
\* invitation sent by a manager is not an org_admin's
C28_Step ==
  /\ \A j \in Inserted(invitations, invitations') :
       \E held \in RolesHeld(j.invitedBy, j.orgId) : Ordinal(j.role) <= Ordinal(held)
  /\ \A m \in Inserted(memberships, memberships') :
       \A i \in Turned("accepted") :
          "manager" \in RolesHeld(i.invitedBy, i.orgId) => m.role # "org_admin"

\* C28: the role an invitation carries never exceeds the role its inviter held in
\* the organization when inviteMember ran, so an inviteMember by a manager
\* followed by the invitee's acceptInvitation never produces an org_admin
\* membership
C28_NoEscalationByInvitation == [][C28_Step]_vars


\* an organization that is not active stays as it is, and a request that names
\* it is answered by loadOrgContext with 'Organization is not active'
C29_Step ==
  \A o \in orgs :
    o.status # "active" =>
      /\ o \in orgs'
      /\ (resp' # Quiet /\ resp'.orgSlug = o.slug) =>
           /\ resp'.stage = "loadOrgContext"
           /\ resp'.code = "FORBIDDEN"
           /\ resp'.message = OrgInactiveMessage

\* C29: once an org_admin has set an organization's status to inactive or
\* suspended through updateOrganization, every later request for that
\* organization, an org_admin's request to set the status back to active
\* included, is denied at loadOrgContext with 'Organization is not active', and
\* no sequence of requests returns the organization to the status active
C29_InactiveIsFinal ==
  /\ [][C29_Step]_vars
  /\ \A slug \in Slugs :
       [](\E o \in orgs : o.slug = slug /\ o.status # "active")
          => [](\A o \in orgs : o.slug = slug => o.status # "active")

\* u1, an org_admin of the suspended organization acme, is denied at loadOrgContext
C29_Witness ==
  /\ resp # Quiet
  /\ resp.stage = "loadOrgContext"
  /\ resp.message = OrgInactiveMessage
  /\ resp.userId = "u1"
  /\ \E o \in orgs : o.slug = resp.orgSlug /\ o.status = "suspended"
  /\ \E m \in memberships : /\ m.userId = "u1"
                             /\ m.role = "org_admin"
                             /\ m.deletedAt = Null
                             /\ \E o \in orgs : o._id = m.orgId /\ o.slug = resp.orgSlug


\* was the user's membership in the organization removed: a soft-deleted row
\* and no other
WasRemoved(userId, orgId) ==
  /\ \E m \in memberships : m.userId = userId /\ m.orgId = orgId /\ m.deletedAt # Null
  /\ ~IsMember(userId, orgId)

\* an acceptInvitation call by a removed member, for a pending invitation to the
\* organization they were removed from, succeeds and leaves them an active
\* membership
C30_Step ==
  \A r \in 1..MaxInflight :
    (/\ reqs[r].pc = "acceptInvitation"
     /\ reqs'[r].pc = "idle"
     /\ reqs[r].invitation \in invitations
     /\ WasRemoved(reqs[r].userId, reqs[r].invitation.orgId)) =>
       /\ resp' # Quiet
       /\ resp'.code = "OK"
       /\ \E m \in memberships' : /\ m.userId = reqs[r].userId
                                  /\ m.orgId = reqs[r].invitation.orgId
                                  /\ m.status = "active"
                                  /\ m.deletedAt = Null

\* C30: a user whose membership in an organization was removed can rejoin: a new
\* invitation for their email to the same organization can be issued, and their
\* acceptInvitation then succeeds and creates a new active membership
C30_RemovedMemberRejoins == [][C30_Step]_vars

====
